---- MODULE Spec2Model ----
(***************************************************************************)
(* Storage engine of the project: MultiSqliteBackend behind the Storage     *)
(* facade.  One metadata database (sessions.db) per project directory and   *)
(* one database file per session id, an in-memory cache of open handles     *)
(* and an in-memory messageID -> sessionID map.                             *)
(*                                                                         *)
(* Strings are sequences of one-character strings, so that key.join("/"),   *)
(* key.split("/"), SQL LIKE, ORDER BY key, JSON.stringify and JSON.parse    *)
(* are computed character by character as the code computes them.           *)
(***************************************************************************)
EXTENDS Integers, Sequences, FiniteSets, TLC

\* Number of facade operations in one run (each handler runs to completion).
MaxOps == 4

----------------------------------------------------------------------------
(* Strings *)

SESSION      == <<"s","e","s","s","i","o","n">>
MESSAGE      == <<"m","e","s","s","a","g","e">>
PART         == <<"p","a","r","t">>
SESSION_DIFF == <<"s","e","s","s","i","o","n","_","d","i","f","f">>
PROJECT      == <<"p","r","o","j","e","c","t">>

\* Identifiers drawn as inputs.  Identifiers of the program carry an
\* underscore ("ses_...", "msg_..."), so one session id has one too.
Projects == { <<"p","1">>, <<"p","2">> }
Sessions == { <<"s","_">>, <<"s","A">> }
Messages == { <<"m","1">>, <<"m","2">> }
Parts    == { <<"q","1">> }

\* JavaScript undefined (a missing array element, a missing map entry).
Undefined == <<"u","n","d","e","f","i","n","e","d">>

\* The characters in use, in ASCII order (BINARY collation of ORDER BY key).
Ascii ==
  << "\"", "%", "/", "0", "1", "2", "A", "_", "a", "d", "e", "f", "g", "i",
     "j", "l", "m", "n", "o", "p", "q", "r", "s", "t", "u" >>

Code(c) == CHOOSE i \in 1..Len(Ascii) : Ascii[i] = c

\* a < b in byte order
RECURSIVE LexLess(_, _)
LexLess(a, b) ==
  IF b = <<>> THEN FALSE
  ELSE IF a = <<>> THEN TRUE
  ELSE IF Head(a) = Head(b) THEN LexLess(Tail(a), Tail(b))
  ELSE Code(Head(a)) < Code(Head(b))

\* key.join("/")
RECURSIVE Join(_)
Join(key) ==
  IF key = <<>> THEN <<>>
  ELSE IF Len(key) = 1 THEN key[1]
  ELSE key[1] \o <<"/">> \o Join(Tail(key))

\* str.split("/")
RECURSIVE SplitFrom(_, _)
SplitFrom(cur, str) ==
  IF str = <<>> THEN <<cur>>
  ELSE IF Head(str) = "/" THEN <<cur>> \o SplitFrom(<<>>, Tail(str))
  ELSE SplitFrom(Append(cur, Head(str)), Tail(str))

Split(str) == SplitFrom(<<>>, str)

\* SQLite folds ASCII upper case for LIKE.
FoldCase(c) == IF c = "A" THEN "a" ELSE c

\* SQLite LIKE: % matches any run, _ any one character, ASCII case ignored.
RECURSIVE Like(_, _)
Like(pat, str) ==
  IF pat = <<>> THEN str = <<>>
  ELSE IF Head(pat) = "%"
    THEN Like(Tail(pat), str) \/ (str # <<>> /\ Like(pat, Tail(str)))
  ELSE /\ str # <<>>
       /\ (Head(pat) = "_" \/ FoldCase(Head(pat)) = FoldCase(Head(str)))
       /\ Like(Tail(pat), Tail(str))

\* str begins with pre (character for character)
StartsWith(str, pre) ==
  /\ Len(pre) <= Len(str)
  /\ SubSeq(str, 1, Len(pre)) = pre

----------------------------------------------------------------------------
(* JSON values and their text *)

JNum(digits) == [t |-> "num", s |-> digits]
JStr(chars)  == [t |-> "str", s |-> chars]
JNull        == [t |-> "null", s |-> <<>>]
\* The object {"n": digits}
JObj(digits) == [t |-> "obj", s |-> digits]

\* The values written: the number 1 and the string "1".
Values == { JNum(<<"1">>), JStr(<<"1">>) }

\* The object written for update() to change: {"n": 1}
Records == { JObj(<<"1">>) }

\* No value (void result, nothing returned).
None == [t |-> "none", s |-> <<>>]

JSONstringify(v) ==
  IF v.t = "null" THEN <<"n","u","l","l">>
  ELSE IF v.t = "str" THEN <<"\"">> \o v.s \o <<"\"">>
  ELSE IF v.t = "obj" THEN <<"{", "\"", "n", "\"", ":">> \o v.s \o <<"}">>
  ELSE v.s

JSONparse(text) ==
  IF text = <<"n","u","l","l">> THEN JNull
  ELSE IF Head(text) = "\"" THEN JStr(SubSeq(text, 2, Len(text) - 1))
  ELSE IF Head(text) = "{" THEN JObj(SubSeq(text, 6, Len(text) - 1))
  ELSE JNum(text)

----------------------------------------------------------------------------
(* Keys *)

SessionKeys == { <<SESSION, p, s>> : p \in Projects, s \in Sessions }
MessageKeys == { <<MESSAGE, s, m>> : s \in Sessions, m \in Messages }
PartKeys    == { <<PART, m, q>> : m \in Messages, q \in Parts }
\* read, write and remove look at no segment of a session_diff or project key
\* but the first: one key of each type is drawn.
DiffKeys    == { <<SESSION_DIFF, <<"s","A">>>> }
ProjectKeys == { <<PROJECT, <<"p","1">>>> }

\* Every record key of the data model.
Keys == SessionKeys \cup MessageKeys \cup PartKeys \cup DiffKeys \cup ProjectKeys

\* The prefixes list() is called with, also passed to remove().
Prefixes ==
  { <<SESSION, p>> : p \in Projects } \cup
  { <<MESSAGE, s>> : s \in Sessions } \cup
  { <<PART, m>> : m \in Messages }

\* key[i], undefined past the end
At(key, i) == IF i <= Len(key) THEN key[i] ELSE Undefined

----------------------------------------------------------------------------
(* State *)

VARIABLES
  sessionsMetaDB,       \* sessions.db: session_id -> row of table sessions
  dbFiles,              \* sessions/{id}.db on disk: NoFile or the rows of table storage
  sessionDBs,           \* the ids with a cached open handle
  messageSessionCache,  \* messageID -> sessionID
  now,                  \* unixepoch()
  last,                 \* the last operation and what it returned or threw
  nops,                 \* operations run so far
  retry,                \* the last call of the retry controller, or the caller's loop
  single,               \* SqliteBackend: the rows of its one table and its last result
  sleeper,              \* a call of sleep(ms, signal): timer, abort listener, promise
  inst,                 \* Instance scopes, their state slots, the Bus and the config file
  tool,                 \* a tool call on a path, the permission gate and the files changed
  json,                 \* JsonBackend: the file of one key and the lock registry of its path
  migration,            \* the sentinel file of the store and the migrations run
  tasks                 \* the operations in flight, each at one of its suspension points

vars == <<sessionsMetaDB, dbFiles, sessionDBs, messageSessionCache, now, last, nops, retry,
          single, sleeper, inst, tool, json, migration, tasks>>

backend == <<sessionsMetaDB, dbFiles, sessionDBs, messageSessionCache>>

NoRow  == [project_id |-> Undefined, data |-> <<>>, updated_at |-> -1]
NoFile == { [key |-> <<>>, type |-> <<>>, data |-> <<>>] }

\* A session database file is named by whatever is passed as a session id:
\* list(["part", m]) passes the message id, a missing id gives undefined.db.
DbNames == Sessions \cup Messages \cup {Undefined}

\* new MultiSqliteBackend(projectDir): the two in-memory maps start empty.
NewSessionDBs == {}
NewMessageSessionCache == [m \in Messages |-> Undefined]

\* called: how many times the operation has run the function it was passed
Result(op, key, arg, status, value, keys) ==
  [op |-> op, key |-> key, arg |-> arg, status |-> status, value |-> value,
   keys |-> keys, called |-> 0]

\* JavaScript numbers and the undefined in their place. Times and delays are
\* counted in tenths of a millisecond, so that the fractions a header can
\* carry (1.5 ms, 0.0015 s) are exact.
JsNumber(n) == [t |-> "number", n |-> n]
JsUndefined == [t |-> "undefined", n |-> 0]
Ms(n) == n * 10

\* An error as the retry controller sees it: error.data.responseHeaders is
\* undefined, or carries retry-after-ms and retry-after (text, or undefined
\* when the header is missing).
ApiError(present, ms, ra) == [headers |-> present, ms |-> ms, ra |-> ra]
NoHeaders == ApiError(FALSE, Undefined, Undefined)

Call(op, pc, error, attempt, startTime, dateNow, maxDuration, result) ==
  [op |-> op, pc |-> pc, error |-> error, attempt |-> attempt, startTime |-> startTime,
   now |-> dateNow, maxDuration |-> maxDuration, result |-> result]

\* No call of the retry controller yet.
NoCall == Call("none", "idle", NoHeaders, 0, 0, 0, JsUndefined, JsUndefined)

\* SqliteBackend on a database file just created: table storage is empty.
NewSingle == [rows |-> {}, last |-> Result("init", <<>>, None, "ok", None, <<>>)]

\* sleep has not been called: the signal exists and is not aborted.
\* pc: the promise (idle before the call, then pending, resolved or rejected);
\* timer: the timeout (none, armed, fired, cleared); listener: the abort
\* listener is registered; first: which of the abort and the timer came first;
\* settled: how often resolve or reject took effect.
NoSleep == [pc |-> "idle", ms |-> 0, elapsed |-> 0, aborted |-> FALSE, timer |-> "none",
            listener |-> FALSE, first |-> "none", settled |-> 0]

\* The project directories.
Directories == { "/a", "/b" }

\* A config: theme, share and keybinds with two actions; "absent" is a
\* field the file does not name.
Info(theme, share, leader, quit) ==
  [theme |-> theme, share |-> share, keybinds |-> [leader |-> leader, quit |-> quit]]

\* {}: the config of a file that is absent or names no field.
EmptyInfo == Info("absent", "absent", "absent", "absent")

\* Config.update has not been called. before: the subscribers when it is
\* called; log: the effects it has had, in order; publish: its call of
\* Bus.publish; scopes: how many scopes exist when it returns.
NoUpdate == [step |-> 0, status |-> "idle", scope |-> 0, config |-> EmptyInfo,
             existing |-> EmptyInfo, merged |-> EmptyInfo, before |-> {},
             log |-> <<>>, publish |-> 0, scopes |-> 0]

\* Config.get has not been called.
NoGet == [status |-> "none", value |-> EmptyInfo, scope |-> 0, after |-> 0]

\* No scope entered yet. scopes: every scope provide() has constructed, in
\* order (its index is its identity); stack: the call chain's scopes, the
\* current one last; calls: the state lookups made; invocations: the factory
\* runs; objs: the objects constructed so far; module: the module-level
\* variable state of Storage is set; disk: opencode.json of each directory;
\* global, local: the other layers of the config hierarchy; publishes: the
\* calls of Bus.publish; deliveries: the subscriber invocations, in order;
\* upd: the call of Config.update; got: the last Config.get; updates: the
\* calls of Config.update completed.
NoInst == [scopes |-> <<>>, stack |-> <<>>, calls |-> <<>>, invocations |-> <<>>,
           objs |-> 0, module |-> FALSE,
           disk |-> [d \in Directories |-> EmptyInfo],
           global |-> EmptyInfo, local |-> EmptyInfo,
           publishes |-> <<>>, deliveries |-> <<>>, upd |-> NoUpdate, got |-> NoGet,
           updates |-> 0]

\* No tool call yet. permission: agent.permission.external_directory; asked:
\* the calls of Permission.ask; answer: how Permission.ask ended; outcome: how
\* the tool call ended; changed: the files it has changed.
NoTool == [pc |-> "idle", name |-> "none", path |-> <<>>, permission |-> "undefined",
           asked |-> 0, answer |-> "none", outcome |-> "none", changed |-> {}]

\* A JSON file of the legacy tree: absent, or holding the marks of the
\* writes and mutations that made its content.
JsonFile(exists, data) == [exists |-> exists, data |-> data]
NoJsonFile == JsonFile(FALSE, {})

\* JsonBackend before any call: the file of the key is absent and the lock
\* registry holds no lock for its path. readers: the tasks holding the read
\* lock; writer: the task holding the write lock, or 0.
NoJson == [file |-> NoJsonFile, readers |-> {}, writer |-> 0]

\* The store of a project at a version: the sentinel file records the
\* version (0: no sentinel) and applied lists the migrations run on the
\* store so far, in the order they ran.
Store(version, applied) == [sentinel |-> version, applied |-> applied]

\* The stores of the project directories, never migrated.
NoMigration == [d \in Directories |-> Store(0, <<>>)]

\* No operation in flight.
NoTasks == <<>>

Init ==
  /\ retry = NoCall
  /\ single = NewSingle
  /\ sleeper = NoSleep
  /\ inst = NoInst
  /\ tool = NoTool
  /\ json = NoJson
  /\ migration = NoMigration
  /\ tasks = NoTasks
  /\ sessionsMetaDB = [s \in Sessions |-> NoRow]
  /\ dbFiles = [d \in DbNames |-> NoFile]
  /\ sessionDBs = NewSessionDBs
  /\ messageSessionCache = NewMessageSessionCache
  /\ now = 0
  /\ last = Result("init", <<>>, None, "ok", None, <<>>)
  /\ nops = 0

----------------------------------------------------------------------------
(* MultiSqliteBackend *)

\* parseKey taking the second segment of a part key for the session id
parseKeySecondSegment(key) ==
  LET type == key[1] IN
  IF type = SESSION
    THEN [type |-> SESSION, sessionID |-> At(key, 3), id |-> Undefined]
  ELSE IF type = MESSAGE
    THEN [type |-> MESSAGE, sessionID |-> At(key, 2), id |-> At(key, 3)]
  ELSE IF type = PART
    THEN [type |-> PART, sessionID |-> At(key, 2), id |-> At(key, 3)]
  ELSE IF type = SESSION_DIFF
    THEN [type |-> SESSION_DIFF, sessionID |-> At(key, 2), id |-> Undefined]
  ELSE [type |-> type, sessionID |-> Undefined, id |-> Undefined]

\* parseKey: the database a key is routed to
parseKey(key) ==
  LET type == key[1] IN
  IF type = SESSION
    THEN [type |-> SESSION, sessionID |-> At(key, 3), id |-> Undefined]
  ELSE IF type = MESSAGE
    THEN [type |-> MESSAGE, sessionID |-> At(key, 2), id |-> At(key, 3)]
  ELSE IF type = PART
    THEN [type |-> PART,
          sessionID |-> IF At(key, 2) \in DOMAIN messageSessionCache
                          THEN messageSessionCache[At(key, 2)] ELSE Undefined,
          id |-> At(key, 3)]
  ELSE IF type = SESSION_DIFF
    THEN [type |-> SESSION_DIFF, sessionID |-> At(key, 2), id |-> Undefined]
  ELSE [type |-> type, sessionID |-> Undefined, id |-> Undefined]

\* getSessionDB: the cached handle, or the file opened with create: true
\* (an absent file is created with an empty table storage) and cached.
getSessionDB(sessionID) ==
  IF sessionID \in sessionDBs
    THEN [handles |-> sessionDBs, files |-> dbFiles]
    ELSE [handles |-> sessionDBs \cup {sessionID},
          files |-> IF dbFiles[sessionID] = NoFile
                      THEN [dbFiles EXCEPT ![sessionID] = {}]
                      ELSE dbFiles]

\* INSERT INTO storage ... ON CONFLICT(key) DO UPDATE SET data = excluded.data.
\* created_at and updated_at of table storage are read by no statement and
\* are left out.
UpsertStorage(table, keyStr, type, data) ==
  IF \E r \in table : r.key = keyStr
    THEN { IF r.key = keyStr THEN [r EXCEPT !.data = data] ELSE r : r \in table }
    ELSE table \cup { [key |-> keyStr, type |-> type, data |-> data] }

\* The upsert with DO UPDATE SET data only: an overwrite keeps updated_at
UpsertSessionDataOnly(meta, sessionID, projectID, data) ==
  IF meta[sessionID] # NoRow
    THEN [meta EXCEPT ![sessionID].data = data]
    ELSE [meta EXCEPT ![sessionID] =
            [project_id |-> projectID, data |-> data, updated_at |-> now]]

\* INSERT INTO sessions ... ON CONFLICT(session_id) DO UPDATE SET data, updated_at
UpsertSession(meta, sessionID, projectID, data) ==
  IF meta[sessionID] # NoRow
    THEN [meta EXCEPT ![sessionID].data = data, ![sessionID].updated_at = now]
    ELSE [meta EXCEPT ![sessionID] =
            [project_id |-> projectID, data |-> data, updated_at |-> now]]

\* DELETE FROM sessions WHERE session_id = ?   (an undefined id matches no row)
DeleteSession(meta, sessionID) ==
  IF sessionID \in DOMAIN meta THEN [meta EXCEPT ![sessionID] = NoRow] ELSE meta

\* DELETE with the pattern % in place of keyStr/%
DeleteStorageAnyKey(table, keyStr) ==
  { r \in table : ~(r.key = keyStr \/ Like(<<"%">>, r.key)) }

\* DELETE FROM storage WHERE key = ? OR key LIKE ?   with ? = keyStr, keyStr/%
DeleteStorage(table, keyStr) ==
  { r \in table : ~(r.key = keyStr \/ Like(keyStr \o <<"/","%">>, r.key)) }

\* remove() that leaves the database file on disk
UnlinkSkipped(files, sessionID) == files

\* fs.unlink of sessions/{id}.db and its -wal and -shm sidecars, errors ignored
Unlink(files, sessionID) ==
  IF sessionID \in DOMAIN files THEN [files EXCEPT ![sessionID] = NoFile] ELSE files

\* What an operation returns or throws, and the state it leaves.
Outcome(status, value, keys, meta, files, handles, cache) ==
  [status |-> status, value |-> value, keys |-> keys, meta |-> meta,
   files |-> files, handles |-> handles, cache |-> cache]

\* An operation that throws before it changes anything.
Throws(status) ==
  Outcome(status, None, <<>>, sessionsMetaDB, dbFiles, sessionDBs, messageSessionCache)

\* read(key)
read(key) ==
  LET keyStr == Join(key)
      parsed == parseKey(key)
  IN
  IF parsed.type = SESSION THEN
    IF parsed.sessionID \notin Sessions \/ sessionsMetaDB[parsed.sessionID] = NoRow
      THEN Throws("NotFoundError")
      ELSE Outcome("ok", JSONparse(sessionsMetaDB[parsed.sessionID].data), <<>>,
                   sessionsMetaDB, dbFiles, sessionDBs, messageSessionCache)
  ELSE IF parsed.type = MESSAGE \/ parsed.type = PART THEN
    IF parsed.sessionID = Undefined
      THEN Throws("SessionUnknown")
      ELSE
        LET db == getSessionDB(parsed.sessionID)
            rows == { r \in db.files[parsed.sessionID] : r.key = keyStr }
        IN IF rows = {}
             THEN Outcome("NotFoundError", None, <<>>, sessionsMetaDB, db.files,
                          db.handles, messageSessionCache)
             ELSE Outcome("ok", JSONparse((CHOOSE r \in rows : TRUE).data), <<>>,
                          sessionsMetaDB, db.files, db.handles, messageSessionCache)
  ELSE Throws("UnknownKeyType")

\* write(key, content)
write(key, content) ==
  LET keyStr == Join(key)
      parsed == parseKey(key)
      data   == JSONstringify(content)
  IN
  IF parsed.type = SESSION THEN
    Outcome("ok", None, <<>>, UpsertSession(sessionsMetaDB, key[3], key[2], data),
            dbFiles, sessionDBs, messageSessionCache)
  ELSE IF parsed.type = MESSAGE THEN
    LET sessionID == parsed.sessionID
        messageID == parsed.id
        db == getSessionDB(sessionID)
    IN Outcome("ok", None, <<>>, sessionsMetaDB,
               [db.files EXCEPT ![sessionID] =
                  UpsertStorage(db.files[sessionID], keyStr, parsed.type, data)],
               db.handles,
               [messageSessionCache EXCEPT ![messageID] = sessionID])
  ELSE IF parsed.type = PART THEN
    IF parsed.sessionID = Undefined
      THEN Throws("SessionUnknown")
      ELSE
        LET db == getSessionDB(parsed.sessionID)
        IN Outcome("ok", None, <<>>, sessionsMetaDB,
                   [db.files EXCEPT ![parsed.sessionID] =
                      UpsertStorage(db.files[parsed.sessionID], keyStr, parsed.type, data)],
                   db.handles, messageSessionCache)
  ELSE Throws("UnknownKeyType")

\* remove(key) without the check of the session id
removeUnguarded(key) ==
  LET parsed == parseKey(key) IN
  IF parsed.type = SESSION THEN
    LET sessionID == parsed.sessionID IN
    Outcome("ok", None, <<>>, DeleteSession(sessionsMetaDB, sessionID),
            Unlink(dbFiles, sessionID), sessionDBs \ {sessionID}, messageSessionCache)
  ELSE IF parsed.type = MESSAGE \/ parsed.type = PART THEN
    LET keyStr == Join(key)
        db == getSessionDB(parsed.sessionID)
    IN Outcome("ok", None, <<>>, sessionsMetaDB,
               [db.files EXCEPT ![parsed.sessionID] =
                  DeleteStorage(db.files[parsed.sessionID], keyStr)],
               db.handles, messageSessionCache)
  ELSE Outcome("ok", None, <<>>, sessionsMetaDB, dbFiles, sessionDBs, messageSessionCache)

\* remove(key)
remove(key) ==
  LET parsed == parseKey(key) IN
  IF parsed.type = SESSION THEN
    LET sessionID == parsed.sessionID IN
    Outcome("ok", None, <<>>, DeleteSession(sessionsMetaDB, sessionID),
            Unlink(dbFiles, sessionID), sessionDBs \ {sessionID}, messageSessionCache)
  ELSE IF parsed.type = MESSAGE \/ parsed.type = PART THEN
    IF parsed.sessionID = Undefined
      THEN Throws("SessionUnknown")
      ELSE
        LET keyStr == Join(key)
            db == getSessionDB(parsed.sessionID)
        IN Outcome("ok", None, <<>>, sessionsMetaDB,
                   [db.files EXCEPT ![parsed.sessionID] =
                      DeleteStorage(db.files[parsed.sessionID], keyStr)],
                   db.handles, messageSessionCache)
  ELSE Outcome("ok", None, <<>>, sessionsMetaDB, dbFiles, sessionDBs, messageSessionCache)

\* The functions passed to update(): each changes the draft in place.
Mutators == { "setN2" }

\* fn(content): draft.n = 2, or draft.n = draft.n * 10 + 2 (push2), or
\* draft.n = draft.n * 10 + 3 (push3). A draft that is not an object (a
\* number, a string) cannot be changed by the callee.
Mutate(fn, content) ==
  IF content.t = "obj" /\ fn = "setN2" THEN JObj(<<"2">>)
  ELSE IF content.t = "obj" /\ fn = "push2" THEN JObj(content.s \o <<"2">>)
  ELSE IF content.t = "obj" /\ fn = "push3" THEN JObj(content.s \o <<"3">>)
  ELSE content

\* update(key, fn): read, fn(content), write, return content. A read that
\* throws ends the call with what it has done (a database opened or created).
\* The write opens the same database the read has opened and so finds the
\* state the read has left.
update(key, fn) ==
  LET r == read(key) IN
  IF r.status # "ok"
    THEN [out |-> r, called |-> 0]
    ELSE LET content == Mutate(fn, r.value)
         IN [out |-> [write(key, content) EXCEPT !.value = content], called |-> 1]

\* The orders in which the elements of S can be returned.
Orders(S) ==
  { f \in [1..Cardinality(S) -> S] : \A i, j \in 1..Cardinality(S) : i # j => f[i] # f[j] }

\* SELECT session_id FROM sessions WHERE project_id = ? ORDER BY updated_at DESC
\* (rows of equal updated_at come in any order)
SelectSessions(projectID) ==
  LET ids == { s \in Sessions : sessionsMetaDB[s] # NoRow
                                /\ sessionsMetaDB[s].project_id = projectID }
  IN { f \in Orders(ids) :
         \A i, j \in 1..Cardinality(ids) :
           i < j => sessionsMetaDB[f[i]].updated_at >= sessionsMetaDB[f[j]].updated_at }

\* SELECT key FROM storage WHERE key LIKE ? ORDER BY key
SelectKeys(table, pattern) ==
  LET ks == { r.key : r \in { x \in table : Like(pattern, x.key) } }
  IN CHOOSE f \in Orders(ks) :
       \A i, j \in 1..Cardinality(ks) : i < j => LexLess(f[i], f[j])

\* list(prefix): the results it can return (one, but for ties of updated_at)
list(prefix) ==
  LET prefixStr == Join(prefix)
      type == prefix[1]
  IN
  IF type = SESSION THEN
    LET projectID == At(prefix, 2) IN
    { Outcome("ok", None, [i \in 1..Len(rows) |-> <<SESSION, projectID, rows[i]>>],
              sessionsMetaDB, dbFiles, sessionDBs, messageSessionCache)
      : rows \in SelectSessions(projectID) }
  ELSE IF type = MESSAGE \/ type = PART THEN
    LET sessionID == At(prefix, 2)
        db == getSessionDB(sessionID)
        pattern == IF prefixStr # <<>> THEN prefixStr \o <<"/","%">> ELSE <<"%">>
        rows == SelectKeys(db.files[sessionID], pattern)
    IN { Outcome("ok", None, [i \in 1..Len(rows) |-> Split(rows[i])],
                 sessionsMetaDB, db.files, db.handles, messageSessionCache) }
  ELSE { Outcome("ok", None, <<>>, sessionsMetaDB, dbFiles, sessionDBs, messageSessionCache) }

----------------------------------------------------------------------------
(* Storage facade: one action per operation *)

Apply(op, key, arg, out) ==
  /\ sessionsMetaDB' = out.meta
  /\ dbFiles' = out.files
  /\ sessionDBs' = out.handles
  /\ messageSessionCache' = out.cache
  /\ last' = Result(op, key, arg, out.status, out.value, out.keys)
  /\ nops' = nops + 1
  /\ UNCHANGED <<now, retry, single, sleeper, inst, tool, json, migration, tasks>>

Read ==
  /\ nops < MaxOps
  /\ \E key \in Keys :
       \E out \in {read(key)} : Apply("read", key, None, out)

Write ==
  /\ nops < MaxOps
  /\ \E key \in Keys, content \in Values :
       \E out \in {write(key, content)} : Apply("write", key, content, out)

Remove ==
  /\ nops < MaxOps
  /\ \E key \in Keys \cup Prefixes :
       \E out \in {remove(key)} : Apply("remove", key, None, out)

List ==
  /\ nops < MaxOps
  /\ \E prefix \in Prefixes :
       \E out \in list(prefix) : Apply("list", prefix, None, out)

\* Instance.dispose() and the next access to Storage: getState() finds no
\* cached state and constructs a new MultiSqliteBackend on the same directory.
WriteRecord ==
  /\ nops < MaxOps
  /\ \E key \in Keys, content \in Records :
       \E out \in {write(key, content)} : Apply("write", key, content, out)

Update ==
  /\ nops < MaxOps
  /\ \E key \in Keys, fn \in Mutators :
       \E u \in {update(key, fn)} :
         /\ sessionsMetaDB' = u.out.meta
         /\ dbFiles' = u.out.files
         /\ sessionDBs' = u.out.handles
         /\ messageSessionCache' = u.out.cache
         /\ last' = [Result("update", key, None, u.out.status, u.out.value, <<>>)
                       EXCEPT !.called = u.called]
         /\ nops' = nops + 1
         /\ UNCHANGED <<now, retry, single, sleeper, inst, tool, json, migration, tasks>>

Dispose ==
  /\ nops < MaxOps
  /\ sessionDBs' = NewSessionDBs
  /\ messageSessionCache' = NewMessageSessionCache
  /\ last' = Result("dispose", <<>>, None, "ok", None, <<>>)
  /\ nops' = nops + 1
  /\ UNCHANGED <<sessionsMetaDB, dbFiles, now, retry, single, sleeper, inst, tool, json, migration, tasks>>

\* One second passes.
Tick ==
  /\ nops < MaxOps
  /\ now' = now + 1
  /\ last' = Result("tick", <<>>, None, "ok", None, <<>>)
  /\ nops' = nops + 1
  /\ UNCHANGED <<backend, retry, single, sleeper, inst, tool, json, migration, tasks>>

Next == Read \/ Write \/ Remove \/ List \/ Dispose \/ Tick

Spec == Init /\ [][Next]_vars

\* Records written, updated in place and removed.
NextUpdate == WriteRecord \/ Update \/ Remove

SpecUpdate == Init /\ [][NextUpdate]_vars

----------------------------------------------------------------------------
(* Retry controller *)

MaxAttempt == 11

RETRY_INITIAL_DELAY == 2000
RETRY_BACKOFF_FACTOR == 2
RETRY_MAX_DELAY_NO_HEADERS == 30000
TEN_MINUTES == 600000
DEFAULT_MAX_DURATION == 600000

RECURSIVE Pow(_, _)
Pow(b, e) == IF e = 0 THEN 1 ELSE b * Pow(b, e - 1)

Min(a, b) == IF a <= b THEN a ELSE b
Max(a, b) == IF a >= b THEN a ELSE b

\* Math.ceil(a / b) for b > 0
CeilDiv(a, b) == -((-a) \div b)

DigitValue ==
  ("0" :> 0) @@ ("1" :> 1) @@ ("2" :> 2) @@ ("3" :> 3) @@ ("4" :> 4) @@
  ("5" :> 5) @@ ("6" :> 6) @@ ("7" :> 7) @@ ("8" :> 8) @@ ("9" :> 9)

\* The index after the run of digits of str that starts at i.
RECURSIVE DigitsEnd(_, _)
DigitsEnd(str, i) ==
  IF i <= Len(str) /\ str[i] \in DOMAIN DigitValue THEN DigitsEnd(str, i + 1) ELSE i

RECURSIVE DigitsNumber(_)
DigitsNumber(ds) ==
  IF ds = <<>> THEN 0
  ELSE DigitsNumber(SubSeq(ds, 1, Len(ds) - 1)) * 10 + DigitValue[ds[Len(ds)]]

\* Number.parseFloat(str): the longest prefix that is a decimal literal (sign,
\* digits, point, digits), NaN when there is none. The number is num / den.
\* Exponents and leading blanks are not read: no text drawn has them.
parseFloat(str) ==
  LET signed  == str # <<>> /\ str[1] \in {"-", "+"}
      start   == IF signed THEN 2 ELSE 1
      intEnd  == DigitsEnd(str, start)
      hasDot  == intEnd <= Len(str) /\ str[intEnd] = "."
      fracEnd == IF hasDot THEN DigitsEnd(str, intEnd + 1) ELSE intEnd
      digits  == SubSeq(str, start, intEnd - 1)
                   \o (IF hasDot THEN SubSeq(str, intEnd + 1, fracEnd - 1) ELSE <<>>)
      nFrac   == IF hasDot THEN fracEnd - intEnd - 1 ELSE 0
      sign    == IF signed /\ str[1] = "-" THEN -1 ELSE 1
  IN IF digits = <<>>
       THEN [nan |-> TRUE, num |-> 0, den |-> 1]
       ELSE [nan |-> FALSE, num |-> sign * DigitsNumber(digits), den |-> Pow(10, nFrac)]

\* The HTTP date drawn for retry-after: 600 000 ms after the epoch.
HTTP_DATE ==
  << "T","h","u",","," ","0","1"," ","J","a","n"," ","1","9","7","0"," ",
     "0","0",":","1","0",":","0","0"," ","G","M","T" >>

\* Date.parse(str) in tenths of a millisecond; NaN for the other texts that
\* reach it (those parseFloat has refused).
DateParse(str) ==
  IF str = HTTP_DATE THEN [nan |-> FALSE, n |-> Ms(600000)] ELSE [nan |-> TRUE, n |-> 0]

\* if (text): a header is used when it is there and not empty
Truthy(text) == text # Undefined /\ text # <<>>

\* RETRY_INITIAL_DELAY * Math.pow(RETRY_BACKOFF_FACTOR, attempt) in place of attempt - 1
ExponentialFromAttempt(attempt) ==
  Ms(RETRY_INITIAL_DELAY) * Pow(RETRY_BACKOFF_FACTOR, attempt)

\* RETRY_INITIAL_DELAY * Math.pow(RETRY_BACKOFF_FACTOR, attempt - 1)
Exponential(attempt) ==
  Ms(RETRY_INITIAL_DELAY) * Pow(RETRY_BACKOFF_FACTOR, attempt - 1)

\* The headers branch that looks at retry-after before retry-after-ms
delayFromHeadersSecondsFirst(error, attempt, dateNow) ==
  LET parsedMs      == parseFloat(error.ms)
      parsedSeconds == parseFloat(error.ra)
      date          == DateParse(error.ra)
      parsed        == date.n - dateNow
  IN
  IF Truthy(error.ra) /\ ~parsedSeconds.nan
    THEN Ms(CeilDiv(parsedSeconds.num * 1000, parsedSeconds.den))
  ELSE IF Truthy(error.ms) /\ ~parsedMs.nan
    THEN (parsedMs.num * 10) \div parsedMs.den
  ELSE IF Truthy(error.ra) /\ ~date.nan /\ parsed > 0
    THEN Ms(CeilDiv(parsed, 10))
  ELSE Exponential(attempt)

\* delay(), the branch if (headers): retry-after-ms, then retry-after as
\* seconds, then retry-after as a date, then the exponential with no cap.
delayFromHeaders(error, attempt, dateNow) ==
  LET parsedMs      == parseFloat(error.ms)
      parsedSeconds == parseFloat(error.ra)
      date          == DateParse(error.ra)
      parsed        == date.n - dateNow
  IN
  IF Truthy(error.ms) /\ ~parsedMs.nan
    THEN (parsedMs.num * 10) \div parsedMs.den
  ELSE IF Truthy(error.ra) /\ ~parsedSeconds.nan
    THEN Ms(CeilDiv(parsedSeconds.num * 1000, parsedSeconds.den))
  ELSE IF Truthy(error.ra) /\ ~date.nan /\ parsed > 0
    THEN Ms(CeilDiv(parsed, 10))
  ELSE Exponential(attempt)

\* Math.max in place of Math.min
delayNoHeadersMax(attempt) ==
  Max(Exponential(attempt), Ms(RETRY_MAX_DELAY_NO_HEADERS))

\* delay(), no headers at all: the exponential capped
delayNoHeaders(attempt) ==
  Min(Exponential(attempt), Ms(RETRY_MAX_DELAY_NO_HEADERS))

\* delay() that caps what the headers branch returns too
delayAlwaysCapped(error, attempt, dateNow) ==
  IF error.headers
    THEN Min(delayFromHeaders(error, attempt, dateNow), Ms(RETRY_MAX_DELAY_NO_HEADERS))
    ELSE delayNoHeaders(attempt)

\* delay(error, attempt), with the Date.now() it reads
delay(error, attempt, dateNow) ==
  IF error.headers
    THEN delayFromHeaders(error, attempt, dateNow)
    ELSE delayNoHeaders(attempt)

\* getRetryDelayInMs with >= TEN_MINUTES
getRetryDelayInMsAtLeast(error, attempt, dateNow) ==
  IF error.headers
    THEN LET baseDelay == delay(error, attempt, dateNow)
         IN IF baseDelay >= Ms(TEN_MINUTES) THEN JsUndefined ELSE JsNumber(baseDelay)
    ELSE LET exponential == Exponential(attempt)
         IN IF exponential >= Ms(TEN_MINUTES) THEN JsUndefined ELSE JsNumber(exponential)

\* getRetryDelayInMs(error, attempt)
getRetryDelayInMs(error, attempt, dateNow) ==
  IF error.headers
    THEN LET baseDelay == delay(error, attempt, dateNow)
         IN IF baseDelay > Ms(TEN_MINUTES) THEN JsUndefined ELSE JsNumber(baseDelay)
    ELSE LET exponential == Exponential(attempt)
         IN IF exponential > Ms(TEN_MINUTES) THEN JsUndefined ELSE JsNumber(exponential)

\* The budget that ignores maxDuration
RetryTimeoutDefaultOnly(maxDuration) == Ms(DEFAULT_MAX_DURATION)

\* RETRY_TIMEOUT = maxDuration ?? 600_000
RetryTimeout(maxDuration) ==
  IF maxDuration.t = "undefined" THEN Ms(DEFAULT_MAX_DURATION) ELSE maxDuration.n

\* getBoundedDelay that returns the delay without capping it
getBoundedDelayUncapped(error, attempt, startTime, maxDuration, dateNow) ==
  LET remainingTime == RetryTimeout(maxDuration) - (dateNow - startTime)
      retryDelay    == getRetryDelayInMs(error, attempt, dateNow)
  IN IF remainingTime <= 0 THEN JsUndefined
     ELSE IF retryDelay.t = "undefined" THEN JsUndefined
     ELSE IF retryDelay.n > 0 THEN JsNumber(retryDelay.n) ELSE JsUndefined

\* getBoundedDelay({error, attempt, startTime, maxDuration})
getBoundedDelay(error, attempt, startTime, maxDuration, dateNow) ==
  LET elapsedTime   == dateNow - startTime
      remainingTime == RetryTimeout(maxDuration) - elapsedTime
      retryDelay    == getRetryDelayInMs(error, attempt, dateNow)
      boundedDelay  == Min(retryDelay.n, remainingTime)
  IN IF remainingTime <= 0 THEN JsUndefined
     ELSE IF retryDelay.t = "undefined" THEN JsUndefined
     ELSE IF boundedDelay > 0 THEN JsNumber(boundedDelay) ELSE JsUndefined

\* The header texts drawn: missing, empty, numbers (whole, zero, negative,
\* with a fraction), a text that is no number, an HTTP date.
RetryAfterMsValues ==
  { Undefined, <<>>, <<"7","5","0">>, <<"0">>, <<"-","1">>, <<"1",".","5">>, <<"x">> }
RetryAfterValues ==
  { Undefined, <<>>, <<"2">>, <<"6","0","0">>, <<"6","0","1">>,
    <<"0",".","0","0","1","5">>, <<"x">>, HTTP_DATE }

Errors ==
  {NoHeaders} \cup { ApiError(TRUE, ms, ra) : ms \in RetryAfterMsValues, ra \in RetryAfterValues }

Attempts == 1..MaxAttempt

\* Date.now() at the call, and the startTime and maxDuration passed. One call
\* is made in a run: what a call returns does not depend on the calls before.
DateNows == { 0, Ms(1000), Ms(599000), Ms(600000), Ms(650000) }
StartTimes == { 0, Ms(1000) }
MaxDurations == { JsUndefined, JsNumber(Ms(10000)), JsNumber(Ms(1200000)) }

CallDelay ==
  /\ retry.pc = "idle"
  /\ \E error \in Errors, attempt \in Attempts, dateNow \in DateNows :
       retry' = Call("delay", "returned", error, attempt, 0, dateNow, JsUndefined,
                     JsNumber(delay(error, attempt, dateNow)))
  /\ UNCHANGED <<backend, now, last, nops, single, sleeper, inst, tool, json, migration, tasks>>

CallGetRetryDelayInMs ==
  /\ retry.pc = "idle"
  /\ \E error \in Errors, attempt \in Attempts, dateNow \in DateNows :
       retry' = Call("getRetryDelayInMs", "returned", error, attempt, 0, dateNow,
                     JsUndefined, getRetryDelayInMs(error, attempt, dateNow))
  /\ UNCHANGED <<backend, now, last, nops, single, sleeper, inst, tool, json, migration, tasks>>

CallGetBoundedDelay ==
  /\ retry.pc = "idle"
  /\ \E error \in Errors, attempt \in Attempts, startTime \in StartTimes,
        dateNow \in DateNows, maxDuration \in MaxDurations :
       /\ startTime <= dateNow
       /\ retry' = Call("getBoundedDelay", "returned", error, attempt, startTime, dateNow,
                        maxDuration,
                        getBoundedDelay(error, attempt, startTime, maxDuration, dateNow))
  /\ UNCHANGED <<backend, now, last, nops, single, sleeper, inst, tool, json, migration, tasks>>

NextRetry == CallDelay \/ CallGetRetryDelayInMs \/ CallGetBoundedDelay

SpecRetry == Init /\ [][NextRetry]_vars

\* The caller's loop: attempt k fails, the caller asks getBoundedDelay for
\* attempt k and sleeps that long before attempt k + 1; it stops when it
\* gets undefined, when an attempt succeeds, when the sleep is aborted.

\* The errors and budgets the loop is run with (maxDuration undefined: the
\* default), and how long an attempt takes to fail or succeed.
LoopInputs ==
  { [error |-> NoHeaders, maxDuration |-> JsUndefined],
    [error |-> NoHeaders, maxDuration |-> JsNumber(Ms(10000))],
    [error |-> ApiError(TRUE, Undefined, Undefined), maxDuration |-> JsUndefined],
    [error |-> ApiError(TRUE, <<"7","5","0">>, <<"2">>), maxDuration |-> JsNumber(Ms(10000))],
    [error |-> ApiError(TRUE, <<"1",".","5">>, Undefined), maxDuration |-> JsNumber(Ms(10))],
    [error |-> ApiError(TRUE, <<"0">>, Undefined), maxDuration |-> JsUndefined],
    [error |-> ApiError(TRUE, Undefined, <<"2">>), maxDuration |-> JsNumber(Ms(10000))],
    [error |-> ApiError(TRUE, Undefined, HTTP_DATE), maxDuration |-> JsUndefined] }
AttemptDurations == { 0, Ms(500) }

InitLoop ==
  /\ retry \in { Call("loop", "attempt", in.error, 1, 0, 0, in.maxDuration, JsUndefined)
                 : in \in LoopInputs }
  /\ sessionsMetaDB = [s \in Sessions |-> NoRow]
  /\ dbFiles = [d \in DbNames |-> NoFile]
  /\ sessionDBs = NewSessionDBs
  /\ messageSessionCache = NewMessageSessionCache
  /\ now = 0
  /\ last = Result("init", <<>>, None, "ok", None, <<>>)
  /\ nops = 0
  /\ single = NewSingle
  /\ sleeper = NoSleep
  /\ inst = NoInst
  /\ tool = NoTool
  /\ json = NoJson
  /\ migration = NoMigration
  /\ tasks = NoTasks

\* The attempt fails after a while; the caller computes the delay and starts
\* to sleep, or stops.
AttemptFails ==
  /\ retry.pc = "attempt"
  /\ \E duration \in AttemptDurations :
       LET dateNow == retry.now + duration
           d == getBoundedDelay(retry.error, retry.attempt, retry.startTime,
                                retry.maxDuration, dateNow)
       IN retry' = [retry EXCEPT !.now = dateNow, !.result = d,
                                 !.pc = IF d.t = "undefined" THEN "gave up" ELSE "sleeping"]
  /\ UNCHANGED <<backend, now, last, nops, single, sleeper, inst, tool, json, migration, tasks>>

AttemptSucceeds ==
  /\ retry.pc = "attempt"
  /\ \E duration \in AttemptDurations :
       retry' = [retry EXCEPT !.now = retry.now + duration, !.pc = "succeeded"]
  /\ UNCHANGED <<backend, now, last, nops, single, sleeper, inst, tool, json, migration, tasks>>

\* sleep(ms, signal): setTimeout(resolve, ms) fires ms after the call.
SleepResolves ==
  /\ retry.pc = "sleeping"
  /\ retry' = [retry EXCEPT !.now = retry.now + retry.result.n,
                            !.attempt = retry.attempt + 1, !.pc = "attempt"]
  /\ UNCHANGED <<backend, now, last, nops, single, sleeper, inst, tool, json, migration, tasks>>

\* sleep(ms, signal): the signal aborts first, at once or half way: the
\* timer is cleared and the promise rejects with AbortError.
SleepAborted ==
  /\ retry.pc = "sleeping"
  /\ \E after \in { 0, retry.result.n \div 2 } :
       retry' = [retry EXCEPT !.now = retry.now + after, !.pc = "aborted"]
  /\ UNCHANGED <<backend, now, last, nops, single, sleeper, inst, tool, json, migration, tasks>>

NextLoop == AttemptFails \/ AttemptSucceeds \/ SleepResolves \/ SleepAborted

\* A pending timer fires and a pending attempt ends: the event loop runs
\* every callback that is due.
SpecLoop == InitLoop /\ [][NextLoop]_vars /\ WF_vars(NextLoop)

----------------------------------------------------------------------------
(* Properties *)

\* The key strings of the rows on disk.
StoredKeyStrs ==
  { Join(<<SESSION, sessionsMetaDB[s].project_id, s>>) :
      s \in { x \in Sessions : sessionsMetaDB[x] # NoRow } }
  \cup UNION { { r.key : r \in dbFiles[d] } : d \in { x \in DbNames : dbFiles[x] # NoFile } }

\* The database sessions/{d}.db holds a row of this key.
HasKey(d, keyStr) == dbFiles[d] # NoFile /\ \E r \in dbFiles[d] : r.key = keyStr

\* A part key is routable once its message has an entry in the map; keys of
\* the other types need nothing.
Routable(key) == key[1] = PART => messageSessionCache[key[2]] # Undefined

\* C1: for every key k of any record type and every JSON value v, write(k, v)
\* immediately followed by read(k) succeeds and returns a value equal to v
\* (for a part key: once its message has been written).
C1_WriteThenRead ==
  (last.op = "write" /\ Routable(last.key)) =>
    /\ last.status = "ok"
    /\ read(last.key).status = "ok"
    /\ read(last.key).value = last.arg

\* C2: for every key k and values v1, v2, after write(k, v1) then write(k, v2)
\* the second write has not failed and read(k) returns v2.
C2_SecondWriteWins ==
  [][ \A k \in Keys, v2 \in Values :
        ( /\ last.op = "write" /\ last.key = k /\ Routable(k)
          /\ last'.op = "write" /\ last'.key = k /\ last'.arg = v2 )
        => /\ last'.status = "ok"
           /\ (read(k).status)' = "ok"
           /\ (read(k).value)' = v2 ]_vars

\* C3: for every key k, after write(k, v) then remove(k), read(k) fails with
\* NotFound.
C3_RemovedIsNotFound ==
  [][ \A k \in Keys :
        ( /\ last.op = "write" /\ last.key = k /\ Routable(k)
          /\ last'.op = "remove" /\ last'.key = k )
        => (read(k).status)' = "NotFoundError" ]_vars

\* C4: after remove(session/p/s) the metadata row of s is deleted, the cached
\* handle of s is dropped, the database file of s is unlinked, and no message
\* or part of s can be read: read(message/s/m) fails with NotFound.
C4_SessionRemoveCascades ==
  (last.op = "remove" /\ last.key \in SessionKeys) =>
    LET s == last.key[3] IN
    /\ last.status = "ok"
    /\ sessionsMetaDB[s] = NoRow
    /\ s \notin sessionDBs
    /\ dbFiles[s] = NoFile
    /\ \A m \in Messages : read(<<MESSAGE, s, m>>).status = "NotFoundError"
    /\ \A m \in Messages, q \in Parts :
         messageSessionCache[m] = s => read(<<PART, m, q>>).status = "NotFoundError"

\* C4 witness: write(message/s/m, _), then remove(session/p/s): the map still
\* names s for m, and the message is gone.
C4_Witness ==
  /\ nops = 2
  /\ last.op = "remove" /\ last.key \in SessionKeys
  /\ \E m \in Messages :
       /\ messageSessionCache[m] = last.key[3]
       /\ read(<<MESSAGE, last.key[3], m>>).status = "NotFoundError"

\* C5: list(prefix) returns exactly the stored keys whose string form is
\* prefix + "/" + something, none missing, none extra, none twice.
C5_ListExact ==
  last.op = "list" =>
    /\ { Join(last.keys[i]) : i \in 1..Len(last.keys) }
         = { k \in StoredKeyStrs : StartsWith(k, Join(last.key) \o <<"/">>) }
    /\ \A i, j \in 1..Len(last.keys) : i # j => last.keys[i] # last.keys[j]

\* write(part/m/p, v) right after write(message/s/m, _)
PartAfterMessage(s, m, p, v) ==
  /\ last.op = "write" /\ last.key = <<MESSAGE, s, m>>
  /\ last'.op = "write" /\ last'.key = <<PART, m, p>> /\ last'.arg = v

C7_PartWriteKeepsSucceeding ==
  [][ \A k \in PartKeys, v \in Values :
        write(k, v).status = "ok" => (write(k, v).status)' = "ok" ]_vars

\* C8: write, read or remove of part/m/p when m has no entry in the map fails
\* with SessionUnknown and changes nothing: no row, no database file, no
\* handle, no map entry.
C8_UnknownSessionChangesNothing ==
  [][ ( /\ last'.op \in {"write", "read", "remove"}
        /\ last'.key \in PartKeys
        /\ nops' = nops + 1
        /\ messageSessionCache[last'.key[2]] = Undefined )
        => (last'.status = "SessionUnknown" /\ UNCHANGED backend) ]_vars

\* C8 witness: a write of a part whose message has no entry has failed, and
\* there is still no database file and no handle.
C8_Witness ==
  /\ last.op = "write" /\ last.key \in PartKeys
  /\ last.status = "SessionUnknown"
  /\ messageSessionCache[last.key[2]] = Undefined
  /\ \A d \in DbNames : dbFiles[d] = NoFile
  /\ sessionDBs = {}

\* C9: write(session_diff/s, v) succeeds, a following read(session_diff/s)
\* returns v, and no per-session database is created or touched.
C9_DiffInMetadataDB ==
  (last.op = "write" /\ last.key \in DiffKeys) =>
    /\ last.status = "ok"
    /\ read(last.key).status = "ok"
    /\ read(last.key).value = last.arg

\* C10: after remove(k) returns, no stored key whose string form begins with
\* k + "/" remains.
C10_RemoveCascades ==
  (last.op = "remove" /\ last.status = "ok") =>
    \A k \in StoredKeyStrs : ~StartsWith(k, Join(last.key) \o <<"/">>)

\* The rows of sessions/{d}.db, none when the file does not exist.
Rows(d) == IF dbFiles[d] = NoFile THEN {} ELSE dbFiles[d]

C12_UpdateAbsentNotFound ==
  [][ \A k \in Keys :
        ( /\ last'.op = "update" /\ last'.key = k /\ nops' = nops + 1
          /\ Routable(k) /\ read(k).status # "ok" )
        => /\ last'.status = "NotFoundError"
           /\ last'.called = 0
           /\ sessionsMetaDB' = sessionsMetaDB
           /\ \A d \in DbNames : Rows(d)' = Rows(d) ]_vars

\* The keys come in ascending order of their strings.
Ascending(keys) ==
  \A i, j \in 1..Len(keys) : i < j => LexLess(Join(keys[i]), Join(keys[j]))

\* C13: list(["session", p]) returns the sessions of p ordered by most recent
\* write first, so a session that has just been written or overwritten comes
\* before every other one; list on a message or part prefix returns its keys
\* in ascending lexicographic order.
C13_MostRecentWriteFirst ==
  /\ (last.op = "write" /\ last.key \in SessionKeys) =>
       \A p \in Projects : \A out \in list(<<SESSION, p>>) :
         \A j \in 1..Len(out.keys) : out.keys[j] = last.key => j = 1
  /\ (last.op = "list" /\ last.key[1] \in {MESSAGE, PART}) => Ascending(last.keys)

\* C13 amended: list(["session", p]) returns the sessions of p by updated_at
\* descending, a time in whole seconds: a session that has just been written
\* or overwritten comes before every session last written in an earlier
\* second, and sessions last written in the same second come in any order;
\* list on a message or part prefix returns its keys in ascending
\* lexicographic order.
C13_LaterSecondFirst ==
  /\ (last.op = "write" /\ last.key \in SessionKeys) =>
       \A p \in Projects : \A out \in list(<<SESSION, p>>) :
         \A i, j \in 1..Len(out.keys) :
           (i < j /\ out.keys[j][3] = last.key[3]) =>
             sessionsMetaDB[out.keys[i][3]].updated_at = now
  /\ (last.op = "list" /\ last.key[1] = SESSION) =>
       \A i, j \in 1..Len(last.keys) :
         i < j => sessionsMetaDB[last.keys[i][3]].updated_at
                    >= sessionsMetaDB[last.keys[j][3]].updated_at
  /\ (last.op = "list" /\ last.key[1] \in {MESSAGE, PART}) => Ascending(last.keys)

\* C13 witness: a session has just been written, a second or more after
\* another session of the same project, and it is listed before that one.
C13_Witness ==
  /\ last.op = "write" /\ last.key \in SessionKeys
  /\ \E p \in Projects : \E out \in list(<<SESSION, p>>) :
       /\ Len(out.keys) = 2
       /\ out.keys[1][3] = last.key[3]
       /\ sessionsMetaDB[out.keys[2][3]].updated_at < now

\* The budget and the time used at a call of getBoundedDelay.
MaxDurationOf(r) == IF r.maxDuration.t = "undefined" THEN Ms(600000) ELSE r.maxDuration.n
ElapsedOf(r) == r.now - r.startTime

\* 2000 * 2^(attempt - 1) ms
Doubling(attempt) == Ms(2000 * Pow(2, attempt - 1))

\* What getBoundedDelay bounds: delay(error, attempt) when the error has
\* headers, the doubling with no cap when it has none.
UncappedDelay(r) ==
  IF r.error.headers THEN delay(r.error, r.attempt, r.now) ELSE Doubling(r.attempt)

C15_MinOfDelayAndRemaining ==
  (retry.op = "getBoundedDelay" /\ retry.result.t = "number") =>
    /\ retry.result.n = Min(delay(retry.error, retry.attempt, retry.now),
                            MaxDurationOf(retry) - ElapsedOf(retry))
    /\ retry.result.n > 0
    /\ retry.result.n <= MaxDurationOf(retry) - ElapsedOf(retry)

\* C15 amended: whenever getBoundedDelay does not give up it returns
\* min(d, maxDuration - elapsed), where d is delay(error, attempt) when the
\* error has headers and 2000 * 2^(attempt-1) with no cap when it has none;
\* the value is > 0 and <= maxDuration - elapsed.
C15_MinOfUncappedAndRemaining ==
  (retry.op = "getBoundedDelay" /\ retry.result.t = "number") =>
    /\ retry.result.n = Min(UncappedDelay(retry), MaxDurationOf(retry) - ElapsedOf(retry))
    /\ retry.result.n > 0
    /\ retry.result.n <= MaxDurationOf(retry) - ElapsedOf(retry)

\* C15 witness: no headers, attempt 6, nothing used of 600 000 ms: the delay
\* returned is 64 000 ms, above the cap of delay().
C15_Witness ==
  /\ retry.op = "getBoundedDelay" /\ ~retry.error.headers
  /\ retry.attempt = 6 /\ ElapsedOf(retry) = 0 /\ retry.maxDuration = JsUndefined
  /\ retry.result = JsNumber(Ms(64000))

\* C16: with no headers getBoundedDelay does not give up while budget remains
\* and returns d with 0 < d <= maxDuration - elapsed; at attempt 10 with
\* 599 000 ms used of 600 000, 0 < d <= 1000.
C16_NoHeadersNeverGivesUp ==
  ( /\ retry.op = "getBoundedDelay" /\ ~retry.error.headers
    /\ ElapsedOf(retry) < MaxDurationOf(retry) )
  => /\ retry.result.t = "number"
     /\ retry.result.n > 0
     /\ retry.result.n <= MaxDurationOf(retry) - ElapsedOf(retry)

\* C16 amended: with no headers and budget remaining, getBoundedDelay returns
\* d with 0 < d <= maxDuration - elapsed at attempts 1 to 9 and gives up from
\* attempt 10 on (2000 * 2^9 = 1 024 000 > 600 000): at attempt 10 with
\* 599 000 ms used of 600 000 it returns undefined.
C16_NoHeadersGivesUpAtTen ==
  ( /\ retry.op = "getBoundedDelay" /\ ~retry.error.headers
    /\ ElapsedOf(retry) < MaxDurationOf(retry) )
  => IF retry.attempt >= 10
       THEN retry.result.t = "undefined"
       ELSE /\ retry.result.t = "number"
            /\ retry.result.n > 0
            /\ retry.result.n <= MaxDurationOf(retry) - ElapsedOf(retry)

\* C16 witness: no headers, attempt 10, 599 000 ms used of the default
\* 600 000: undefined.
C16_Witness ==
  /\ retry.op = "getBoundedDelay" /\ ~retry.error.headers
  /\ retry.attempt = 10 /\ ElapsedOf(retry) = Ms(599000)
  /\ MaxDurationOf(retry) = Ms(600000)
  /\ retry.result.t = "undefined"

\* The numbers the header texts stand for: retry-after-ms in ms, retry-after
\* in seconds rounded up to whole ms. Both in tenths of a millisecond.
MsHint ==
  (<<"7","5","0">> :> 7500) @@ (<<"0">> :> 0) @@ (<<"-","1">> :> -10) @@
  (<<"1",".","5">> :> 15)
SecondsHint ==
  (<<"2">> :> 20000) @@ (<<"6","0","0">> :> 6000000) @@ (<<"6","0","1">> :> 6010000) @@
  (<<"0",".","0","0","1","5">> :> 20)

\* C17: when retry-after-ms parses as a number, delay(error, attempt) returns
\* exactly that number, for every attempt and whatever retry-after contains;
\* retry-after, as ceil(n * 1000), is used when retry-after-ms is missing or
\* does not parse.
C17_RetryAfterMsFirst ==
  (retry.op = "delay" /\ retry.error.headers) =>
    /\ retry.error.ms \in DOMAIN MsHint => retry.result.n = MsHint[retry.error.ms]
    /\ (retry.error.ms \notin DOMAIN MsHint /\ retry.error.ra \in DOMAIN SecondsHint)
         => retry.result.n = SecondsHint[retry.error.ra]

\* C17 witness: retry-after-ms is 750 and retry-after is 2, past the first
\* attempt: the delay is 750 ms.
C17_Witness ==
  /\ retry.op = "delay" /\ retry.error.headers /\ retry.attempt > 1
  /\ retry.error.ms = <<"7","5","0">> /\ retry.error.ra = <<"2">>
  /\ retry.result.n = Ms(750)

\* No header gives a usable hint: neither text parses as a number and
\* retry-after is no date still to come.
NoUsableHint(r) ==
  /\ r.error.ms \notin DOMAIN MsHint
  /\ r.error.ra \notin DOMAIN SecondsHint
  /\ ~(r.error.ra = HTTP_DATE /\ r.now < Ms(600000))

\* C18: when no header gives a usable hint, delay(error, attempt) is
\* 2000 * 2^(attempt-1): with no cap when the error has headers, capped at
\* 30 000 ms when it has none (attempt 4 without headers gives 16 000).
C18_Exponential ==
  retry.op = "delay" =>
    /\ (retry.error.headers /\ NoUsableHint(retry)) =>
         retry.result.n = Doubling(retry.attempt)
    /\ ~retry.error.headers =>
         retry.result.n = Min(Doubling(retry.attempt), Ms(30000))
    /\ (~retry.error.headers /\ retry.attempt = 4) => retry.result.n = Ms(16000)

\* C18 witness: headers with no usable hint at attempt 6: 64 000 ms.
C18_Witness ==
  /\ retry.op = "delay" /\ retry.error.headers /\ NoUsableHint(retry)
  /\ retry.attempt = 6 /\ retry.result.n = Ms(64000)

\* C19: with no headers, delay(error, attempt + 1) >= delay(error, attempt)
\* for every attempt >= 1, and delay never exceeds 30 000 ms.
C19_MonotoneAndCapped ==
  (retry.op = "delay" /\ ~retry.error.headers) =>
    /\ delay(retry.error, retry.attempt + 1, retry.now) >= retry.result.n
    /\ retry.result.n <= Ms(30000)

\* C19 witness: no headers at attempt 5, where 32 000 is cut to 30 000.
C19_Witness ==
  /\ retry.op = "delay" /\ ~retry.error.headers
  /\ retry.attempt = 5 /\ retry.result.n = Ms(30000)

----------------------------------------------------------------------------
(* SqliteBackend: every record in the one table storage of one database *)

\* What an operation of SqliteBackend returns or throws, and the table after it.
SqliteOutcome(status, value, keys, rows) ==
  [status |-> status, value |-> value, keys |-> keys, rows |-> rows]

\* read(key): SELECT data FROM storage WHERE key = ?
SqliteBackend_read(rows, key) ==
  LET keyStr == Join(key) IN
  IF \E r \in rows : r.key = keyStr
    THEN SqliteOutcome("ok", JSONparse((CHOOSE r \in rows : r.key = keyStr).data), <<>>, rows)
    ELSE SqliteOutcome("NotFoundError", None, <<>>, rows)

\* write(key, content): INSERT ... ON CONFLICT(key) DO UPDATE SET data, updated_at.
\* updated_at is read by no statement and is left out.
SqliteBackend_write(rows, key, content) ==
  LET keyStr == Join(key)
      type == key[1]
      parentKey == IF Len(key) > 1 THEN Join(SubSeq(key, 1, Len(key) - 1)) ELSE Undefined
      data == JSONstringify(content)
  IN SqliteOutcome("ok", None, <<>>,
       IF \E r \in rows : r.key = keyStr
         THEN { IF r.key = keyStr THEN [r EXCEPT !.data = data] ELSE r : r \in rows }
         ELSE rows \cup { [key |-> keyStr, type |-> type, parent_key |-> parentKey,
                           data |-> data] })

\* update(key, fn): read, fn(content), write, return content
SqliteBackend_update(rows, key, fn) ==
  LET r == SqliteBackend_read(rows, key) IN
  IF r.status # "ok"
    THEN [out |-> r, called |-> 0]
    ELSE LET content == Mutate(fn, r.value)
         IN [out |-> [SqliteBackend_write(rows, key, content) EXCEPT !.value = content],
             called |-> 1]

\* remove(key): DELETE FROM storage WHERE key = ? OR key LIKE 'key/%'
SqliteBackend_remove(rows, key) ==
  LET keyStr == Join(key) IN
  SqliteOutcome("ok", None, <<>>,
    { r \in rows : ~(r.key = keyStr \/ Like(keyStr \o <<"/", "%">>, r.key)) })

\* list(prefix): SELECT key FROM storage WHERE key LIKE ? ORDER BY key
SqliteBackend_list(rows, prefix) ==
  LET prefixStr == Join(prefix)
      pattern == IF prefixStr # <<>> THEN prefixStr \o <<"/", "%">> ELSE <<"%">>
      found == SelectKeys(rows, pattern)
  IN SqliteOutcome("ok", None, [i \in 1..Len(found) |-> Split(found[i])], rows)

\* The keys of the records both backends are given.
BackendKeys == SessionKeys \cup MessageKeys \cup PartKeys

\* A part key or prefix is used once its message has been written.
MessageWritten(key) == key[1] = PART => messageSessionCache[key[2]] # Undefined

\* One operation run on the MultiSqliteBackend (out) and on the SqliteBackend (sout).
ApplyBoth(op, key, arg, out, called, sout, scalled) ==
  /\ sessionsMetaDB' = out.meta
  /\ dbFiles' = out.files
  /\ sessionDBs' = out.handles
  /\ messageSessionCache' = out.cache
  /\ last' = [Result(op, key, arg, out.status, out.value, out.keys) EXCEPT !.called = called]
  /\ single' = [rows |-> sout.rows,
                last |-> [Result(op, key, arg, sout.status, sout.value, sout.keys)
                            EXCEPT !.called = scalled]]
  /\ nops' = nops + 1
  /\ UNCHANGED <<now, retry, sleeper, inst, tool, json, migration, tasks>>

BothRead ==
  /\ nops < MaxOps
  /\ \E key \in BackendKeys :
       /\ MessageWritten(key)
       /\ ApplyBoth("read", key, None, read(key), 0, SqliteBackend_read(single.rows, key), 0)

BothWrite ==
  /\ nops < MaxOps
  /\ \E key \in BackendKeys, content \in Records :
       /\ MessageWritten(key)
       /\ ApplyBoth("write", key, content, write(key, content), 0,
                    SqliteBackend_write(single.rows, key, content), 0)

BothUpdate ==
  /\ nops < MaxOps
  /\ \E key \in BackendKeys, fn \in Mutators :
       /\ MessageWritten(key)
       /\ LET u == update(key, fn)
              su == SqliteBackend_update(single.rows, key, fn)
          IN ApplyBoth("update", key, None, u.out, u.called, su.out, su.called)

BothRemove ==
  /\ nops < MaxOps
  /\ \E key \in BackendKeys \cup Prefixes :
       /\ MessageWritten(key)
       /\ ApplyBoth("remove", key, None, remove(key), 0,
                    SqliteBackend_remove(single.rows, key), 0)

BothList ==
  /\ nops < MaxOps
  /\ \E prefix \in Prefixes :
       /\ MessageWritten(prefix)
       /\ \E out \in list(prefix) :
            ApplyBoth("list", prefix, None, out, 0, SqliteBackend_list(single.rows, prefix), 0)

NextBackends == BothRead \/ BothWrite \/ BothUpdate \/ BothRemove \/ BothList

\* The same sequence of operations run on both backends.
SpecBackends == Init /\ [][NextBackends]_vars

\* C29: on session, message and part keys (a message written before its
\* parts) every operation returns, or throws, on the MultiSqliteBackend what
\* it returns or throws on the SqliteBackend given the same sequence.
C29_BackendsInterchangeable ==
  last.op \in {"read", "write", "update", "remove", "list"}
    => /\ last.status = single.last.status
       /\ last.value = single.last.value
       /\ last.keys = single.last.keys
       /\ last.called = single.last.called

----------------------------------------------------------------------------
(* sleep(ms, signal) *)

MaxMs == 6
\* How long after the timeout the signal is still watched.
MaxLate == 2

\* sleep(ms, signal): new Promise, setTimeout(resolve, ms) and
\* signal.addEventListener("abort", ..., { once: true }). The signal may have
\* been aborted before the call.
SleepCall ==
  /\ sleeper.pc = "idle"
  /\ \E ms \in 0..MaxMs :
       sleeper' = [sleeper EXCEPT !.pc = "pending", !.ms = ms, !.timer = "armed",
                                  !.listener = TRUE]
  /\ UNCHANGED <<backend, now, last, nops, retry, single, inst, tool, json, migration, tasks>>

\* A millisecond passes.
SleepTime ==
  /\ sleeper.pc # "idle"
  /\ sleeper.elapsed < sleeper.ms + MaxLate
  /\ sleeper.timer = "armed" => sleeper.elapsed < sleeper.ms
  /\ sleeper' = [sleeper EXCEPT !.elapsed = sleeper.elapsed + 1]
  /\ UNCHANGED <<backend, now, last, nops, retry, single, inst, tool, json, migration, tasks>>

\* The timeout expires: resolve() settles a pending promise and does nothing
\* to a settled one.
TimerFires ==
  /\ sleeper.timer = "armed"
  /\ sleeper.elapsed = sleeper.ms
  /\ sleeper' = [sleeper EXCEPT
       !.timer = "fired",
       !.first = IF sleeper.first = "none" THEN "timer" ELSE sleeper.first,
       !.pc = IF sleeper.pc = "pending" THEN "resolved" ELSE sleeper.pc,
       !.settled = IF sleeper.pc = "pending" THEN sleeper.settled + 1 ELSE sleeper.settled]
  /\ UNCHANGED <<backend, now, last, nops, retry, single, inst, tool, json, migration, tasks>>

\* The signal is aborted: the abort event is dispatched once, to the
\* listeners registered at that moment. The listener clears the timeout and
\* calls reject(), which does nothing to a settled promise; once: true then
\* removes it. A listener added to a signal already aborted is never called.
SignalAbort ==
  /\ ~sleeper.aborted
  /\ sleeper' = [sleeper EXCEPT
       !.aborted = TRUE,
       !.first = IF sleeper.first = "none" THEN "cancel" ELSE sleeper.first,
       !.listener = IF sleeper.pc = "idle" THEN sleeper.listener ELSE FALSE,
       !.timer = IF sleeper.listener /\ sleeper.timer = "armed" THEN "cleared"
                 ELSE sleeper.timer,
       !.pc = IF sleeper.listener /\ sleeper.pc = "pending" THEN "rejected" ELSE sleeper.pc,
       !.settled = IF sleeper.listener /\ sleeper.pc = "pending"
                     THEN sleeper.settled + 1 ELSE sleeper.settled]
  /\ UNCHANGED <<backend, now, last, nops, retry, single, inst, tool, json, migration, tasks>>

NextSleep == SleepCall \/ SleepTime \/ TimerFires \/ SignalAbort

SpecSleep == Init /\ [][NextSleep]_vars

\* C21: sleep(ms, cancel) settles at most once; it has resolved only if the
\* timer fired before any cancel and has rejected (Aborted) only if the cancel
\* came first; once cancel has fired first the timer never fires and the
\* promise never resolves.
C21_SleepSettlesByFirstEvent ==
  /\ sleeper.settled <= 1
  /\ sleeper.pc = "resolved" => sleeper.first = "timer"
  /\ sleeper.pc = "rejected" => sleeper.first = "cancel"
  /\ sleeper.first = "cancel" => sleeper.timer # "fired"

----------------------------------------------------------------------------
(* Instance scope and the lazy state of Storage *)

MaxScopes == 2
MaxCalls == 3

\* The scope of the running code: the innermost provide().
HasScope == inst.stack # <<>>
Current == inst.stack[Len(inst.stack)]

\* provide(directory, fn): fn runs inside a freshly constructed scope.
NewScope(directory) ==
  [directory |-> directory, disposed |-> FALSE, slots |-> {}, subs |-> <<>>, config |-> <<>>]

\* The slot of a factory in a scope.
HasSlot(i, factory) == \E sl \in inst.scopes[i].slots : sl.factory = factory
Slot(i, factory) == CHOOSE sl \in inst.scopes[i].slots : sl.factory = factory
Pending(i) == \E sl \in inst.scopes[i].slots : sl.status = "pending"

\* getState() making a new accessor, with a new factory function, on every call
getStateAnew(ncalls) == <<"storage", ncalls>>

\* getState(): the accessor kept in the module-level variable state, made by
\* the first call with Instance.state(factory); "storage" names that one
\* factory function.
getState(ncalls) == <<"storage", 0>>

\* The factory handing out one backend object kept at module level
StorageFactoryShared(objs, directory) == [backend |-> 1, dir |-> directory]

\* The factory of Storage: projectDir = Instance.directory, mkdir, and
\* new MultiSqliteBackend(projectDir), an object with its own handle cache
\* and its own messageID -> sessionID map.
StorageFactory(objs, directory) == [backend |-> objs + 1, dir |-> directory]

\* const { backend } = await getState()(): the lookup the accessor makes in
\* the current scope. A disposed scope rejects it; a populated slot answers
\* it; a slot whose factory is still running is awaited; an empty slot runs
\* the factory.
Lookup(factory) ==
  LET sc == inst.scopes[Current] IN
  IF sc.disposed THEN "ScopeDisposed"
  ELSE IF HasSlot(Current, factory)
    THEN (IF Slot(Current, factory).status = "ready" THEN "cached" ELSE "awaits")
  ELSE "runs"

\* The facade keeping the backend of its first successful lookup
AcquireMemoised(factory) ==
  IF \E c \in 1..Len(inst.calls) : inst.calls[c].status = "ok" THEN "memo"
  ELSE Lookup(factory)

\* The facade operations call the accessor anew each time.
Acquire(factory) == Lookup(factory)

\* No state obtained.
NoState == [backend |-> 0, dir |-> ""]

\* A lookup: where it was made, how it ended and what it returned; disposed:
\* the scope was disposed when it was made; ran: it started the factory.
CallOf(scope, factory, status, value, ran) ==
  [scope |-> scope, factory |-> factory, status |-> status, value |-> value,
   disposed |-> inst.scopes[scope].disposed, ran |-> ran]

OkCalls == { c \in 1..Len(inst.calls) : inst.calls[c].status = "ok" }
LastOk == inst.calls[CHOOSE c \in OkCalls : \A d \in OkCalls : d <= c]

\* provide(directory, fn) is entered: fn runs in a new scope, which shadows
\* the scope of the caller.
Provide ==
  /\ Len(inst.scopes) < MaxScopes
  /\ inst.upd.status # "running"
  /\ \E directory \in Directories :
       inst' = [inst EXCEPT !.scopes = Append(@, NewScope(directory)),
                            !.stack = Append(@, Len(inst.scopes) + 1)]
  /\ UNCHANGED <<backend, now, last, nops, retry, single, sleeper, tool, json, migration, tasks>>

\* dispose(): the states of the current scope are released and the scope
\* rejects lookups from then on.
DisposeScope(i) ==
  [inst.scopes[i] EXCEPT !.disposed = TRUE, !.slots = {}, !.subs = <<>>, !.config = <<>>]

InstanceDispose ==
  /\ HasScope
  /\ ~inst.scopes[Current].disposed
  /\ ~Pending(Current)
  /\ inst' = [inst EXCEPT !.scopes[Current] = DisposeScope(Current)]
  /\ UNCHANGED <<backend, now, last, nops, retry, single, sleeper, tool, json, migration, tasks>>

\* fn completes: the scope is destroyed and the caller's scope is current again.
ProvideReturns ==
  /\ HasScope
  /\ ~Pending(Current)
  /\ inst.upd.status # "running"
  /\ inst' = [inst EXCEPT !.scopes[Current] = DisposeScope(Current),
                          !.stack = SubSeq(@, 1, Len(@) - 1)]
  /\ UNCHANGED <<backend, now, last, nops, retry, single, sleeper, tool, json, migration, tasks>>

\* A facade operation of Storage reaches const { backend } = await getState()().
StorageCall ==
  /\ HasScope
  /\ Len(inst.calls) < MaxCalls
  /\ LET factory == getState(Len(inst.calls))
         kind == Acquire(factory)
     IN inst' =
          IF kind = "ScopeDisposed"
            THEN [inst EXCEPT !.module = TRUE,
                   !.calls = Append(@, CallOf(Current, factory, "ScopeDisposed", NoState, FALSE))]
          ELSE IF kind = "memo"
            THEN [inst EXCEPT !.module = TRUE,
                   !.calls = Append(@, CallOf(Current, factory, "ok", LastOk.value, FALSE))]
          ELSE IF kind = "cached"
            THEN [inst EXCEPT !.module = TRUE,
                   !.calls = Append(@, CallOf(Current, factory, "ok",
                                              Slot(Current, factory).value, FALSE))]
          ELSE IF kind = "awaits"
            THEN [inst EXCEPT !.module = TRUE,
                   !.calls = Append(@, CallOf(Current, factory, "waiting", NoState, FALSE))]
          ELSE [inst EXCEPT !.module = TRUE,
                 !.calls = Append(@, CallOf(Current, factory, "waiting", NoState, TRUE)),
                 !.scopes[Current].slots =
                    @ \cup { [factory |-> factory, status |-> "pending", value |-> NoState] },
                 !.invocations = Append(@, [scope |-> Current, factory |-> factory,
                                            status |-> "pending"])]
  /\ UNCHANGED <<backend, now, last, nops, retry, single, sleeper, tool, json, migration, tasks>>

\* The calls and the factory run that wait for the factory of a slot.
Settle(seq, i, factory, from, status) ==
  [c \in 1..Len(seq) |->
     IF seq[c].scope = i /\ seq[c].factory = factory /\ seq[c].status = from
       THEN [seq[c] EXCEPT !.status = status] ELSE seq[c]]

\* MIGRATIONS: the two migrations, by the version each brings the store to.
MIGRATIONS == <<1, 2>>

\* The migrations the factory of Storage runs on a store whose sentinel is at
\* a version: none. The factory makes the directory and the backend; nothing
\* reads a sentinel and nothing refers to MIGRATIONS.
MigrationsRun(sentinel) == <<>>

\* The store after the factory has run on it.
Migrated(store) ==
  LET run == MigrationsRun(store.sentinel) IN
  IF run = <<>> THEN store
  ELSE Store(run[Len(run)], store.applied \o run)

\* The factory resolves: the value is cached on the scope and every waiting
\* call returns it.
FactoryResolves ==
  \E i \in 1..Len(inst.scopes) :
    \E sl \in inst.scopes[i].slots :
      /\ sl.status = "pending"
      /\ LET value == StorageFactory(inst.objs, inst.scopes[i].directory)
             done == Settle(inst.calls, i, sl.factory, "waiting", "ok")
         IN inst' = [inst EXCEPT
              !.objs = @ + 1,
              !.scopes[i].slots = (@ \ {sl}) \cup { [sl EXCEPT !.status = "ready",
                                                               !.value = value] },
              !.calls = [c \in 1..Len(done) |->
                           IF inst.calls[c].status = "waiting" /\ done[c].status = "ok"
                             THEN [done[c] EXCEPT !.value = value] ELSE done[c]],
              !.invocations = Settle(@, i, sl.factory, "pending", "ok")]
      /\ migration' = [migration EXCEPT ![inst.scopes[i].directory] = Migrated(@)]
      /\ UNCHANGED <<backend, now, last, nops, retry, single, sleeper, tool, json, tasks>>

\* The factory fails (mkdir or the open of sessions.db throws): the slot is
\* not populated, the waiting calls fail and the next call runs the factory again.
FactoryFails ==
  \E i \in 1..Len(inst.scopes) :
    \E sl \in inst.scopes[i].slots :
      /\ sl.status = "pending"
      /\ inst' = [inst EXCEPT
           !.scopes[i].slots = @ \ {sl},
           !.calls = Settle(@, i, sl.factory, "waiting", "IO"),
           !.invocations = Settle(@, i, sl.factory, "pending", "failed")]
      /\ UNCHANGED <<backend, now, last, nops, retry, single, sleeper, tool, json, migration, tasks>>

NextInstance ==
  Provide \/ InstanceDispose \/ ProvideReturns \/ StorageCall \/ FactoryResolves \/ FactoryFails

SpecInstance == Init /\ [][NextInstance]_vars

\* The process ends and a new one starts: the module-level variable state,
\* the scopes and their caches are gone; the stores on disk stay.
ProcessStart ==
  /\ inst.module
  /\ inst' = NoInst
  /\ UNCHANGED <<backend, now, last, nops, retry, single, sleeper, tool, json, migration, tasks>>

\* Each project's store is at some version when the first process starts,
\* with the migrations up to that version applied by earlier releases.
InitMigration ==
  /\ migration \in [Directories -> { Store(v, SubSeq(MIGRATIONS, 1, v)) : v \in 0..Len(MIGRATIONS) }]
  /\ json = NoJson
  /\ tasks = NoTasks
  /\ sessionsMetaDB = [s \in Sessions |-> NoRow]
  /\ dbFiles = [d \in DbNames |-> NoFile]
  /\ sessionDBs = NewSessionDBs
  /\ messageSessionCache = NewMessageSessionCache
  /\ now = 0
  /\ last = Result("init", <<>>, None, "ok", None, <<>>)
  /\ nops = 0
  /\ retry = NoCall
  /\ single = NewSingle
  /\ sleeper = NoSleep
  /\ inst = NoInst
  /\ tool = NoTool

NextMigration == NextInstance \/ ProcessStart

SpecMigration == InitMigration /\ [][NextMigration]_vars

----------------------------------------------------------------------------
(* Bus and Config *)

MaxSubs == 2

\* Config.Info: every field is optional; share is one of three words.
ValidInfo(c) ==
  /\ c.theme \in {"absent", "dark", "light"}
  /\ c.share \in {"absent", "manual", "auto", "disabled"}
  /\ c.keybinds.leader \in {"absent", "a", "b"}
  /\ c.keybinds.quit \in {"absent", "q"}

\* The event declared with a schema that accepts any payload
EventUpdatedSchemaAny(properties) == TRUE

\* Config.Event.Updated: Bus.event("config.updated", z.object({ config: Info }))
EventUpdatedSchema(properties) == ValidInfo(properties.config)

\* mergeDeep(destination, source): a field of source replaces the field of
\* destination, except that two objects are merged field by field.
Leaf(d, s) == IF s = "absent" THEN d ELSE s

mergeDeep(destination, source) ==
  [theme |-> Leaf(destination.theme, source.theme),
   share |-> Leaf(destination.share, source.share),
   keybinds |-> [leader |-> Leaf(destination.keybinds.leader, source.keybinds.leader),
                 quit |-> Leaf(destination.keybinds.quit, source.keybinds.quit)]]

\* The merge that replaces a nested object whole
MergedShallow(existing, config) ==
  [theme |-> Leaf(existing.theme, config.theme),
   share |-> Leaf(existing.share, config.share),
   keybinds |-> IF config.keybinds = EmptyInfo.keybinds THEN existing.keybinds
                ELSE config.keybinds]

\* const merged = mergeDeep(existing, config)
Merged(existing, config) == mergeDeep(existing, config)

\* The event carrying the partial config that was passed in
UpdatedPropertiesGiven(merged, config) == [config |-> config]

\* Bus.publish(Event.Updated, { config: merged })
UpdatedProperties(merged, config) == [config |-> merged]

\* Config.update disposing the scope before it publishes
UpdateStepsDisposeFirst == <<"load", "write", "dispose", "publish">>

\* The order of the statements of Config.update.
UpdateSteps == <<"load", "write", "publish", "dispose">>

\* The subscribers of a scope's bus that have not unsubscribed, in
\* registration order.
ActiveSubs(i) ==
  SelectSeq([k \in 1..Len(inst.scopes[i].subs) |-> k],
            LAMBDA k : inst.scopes[i].subs[k].active)

\* publish(event, properties) on the bus of scope i: the bus lives in the
\* state of the scope; the properties are validated; then every subscriber
\* is invoked, in registration order, an exception of one being caught.
Publish(i, properties) ==
  IF inst.scopes[i].disposed THEN [status |-> "ScopeDisposed", invoked |-> <<>>]
  ELSE IF ~EventUpdatedSchema(properties) THEN [status |-> "InvalidError", invoked |-> <<>>]
  ELSE [status |-> "ok", invoked |-> ActiveSubs(i)]

\* The bus after publish: the call, with the subscriptions of that moment,
\* and the invocations it made are recorded.
Published(i, properties, r) ==
  [inst EXCEPT
     !.publishes = Append(@, [scope |-> i, properties |-> properties, status |-> r.status,
                              subs |-> inst.scopes[i].subs]),
     !.deliveries = @ \o [n \in 1..Len(r.invoked) |->
                            [publish |-> Len(inst.publishes) + 1, scope |-> i,
                             sub |-> r.invoked[n], value |-> properties.config,
                             threw |-> inst.scopes[i].subs[r.invoked[n]].throws]]]

\* Config.get(): await state(), whose factory merges global, project, local.
Get(i) ==
  LET sc == inst.scopes[i] IN
  IF sc.disposed THEN [status |-> "ScopeDisposed", value |-> EmptyInfo, cache |-> <<>>]
  ELSE IF sc.config # <<>> THEN [status |-> "ok", value |-> sc.config[1], cache |-> sc.config]
  ELSE LET value == mergeDeep(mergeDeep(inst.global, inst.disk[sc.directory]), inst.local)
       IN [status |-> "ok", value |-> value, cache |-> <<value>>]

DiskInputs == { EmptyInfo, Info("light", "auto", "b", "q") }
\* The global and the local layer: both empty, or a global default and a
\* local override.
LayerInputs == { [global |-> EmptyInfo, local |-> EmptyInfo],
                 [global |-> Info("absent", "manual", "absent", "absent"),
                  local |-> Info("light", "absent", "absent", "absent")] }
Partials == { Info("dark", "absent", "absent", "absent"),
              Info("absent", "absent", "a", "absent") }
PublishInputs == { [config |-> Info("dark", "absent", "absent", "absent")],
                   [config |-> Info("absent", "bogus", "absent", "absent")] }

InitConfig ==
  /\ inst \in { [NoInst EXCEPT !.disk = [d \in Directories |-> disk],
                               !.global = layers.global, !.local = layers.local]
                : disk \in DiskInputs, layers \in LayerInputs }
  /\ sessionsMetaDB = [s \in Sessions |-> NoRow]
  /\ dbFiles = [d \in DbNames |-> NoFile]
  /\ sessionDBs = NewSessionDBs
  /\ messageSessionCache = NewMessageSessionCache
  /\ now = 0
  /\ last = Result("init", <<>>, None, "ok", None, <<>>)
  /\ nops = 0
  /\ retry = NoCall
  /\ single = NewSingle
  /\ sleeper = NoSleep
  /\ tool = NoTool
  /\ json = NoJson
  /\ migration = NoMigration
  /\ tasks = NoTasks

Live == HasScope /\ ~inst.scopes[Current].disposed

\* The subscriptions made in the first n scopes and not yet released.
RECURSIVE Subscriptions(_)
Subscriptions(n) == IF n = 0 THEN 0 ELSE Len(inst.scopes[n].subs) + Subscriptions(n - 1)

\* Bus.subscribe(Event.Updated, callback) in the current scope.
Subscribe ==
  /\ Live
  /\ inst.upd.status # "running"
  /\ Subscriptions(Len(inst.scopes)) < MaxSubs
  /\ inst' = [inst EXCEPT !.scopes[Current].subs =
                 Append(@, [active |-> TRUE, throws |-> FALSE])]
  /\ UNCHANGED <<backend, now, last, nops, retry, single, sleeper, tool, json, migration, tasks>>

\* Bus.subscribe with a callback that throws when it is invoked.
SubscribeThrowing ==
  /\ Live
  /\ Subscriptions(Len(inst.scopes)) < MaxSubs
  /\ inst' = [inst EXCEPT !.scopes[Current].subs =
                 Append(@, [active |-> TRUE, throws |-> TRUE])]
  /\ UNCHANGED <<backend, now, last, nops, retry, single, sleeper, tool, json, migration, tasks>>

\* The unsubscribe handle of a subscription is called.
Unsubscribe ==
  /\ Live
  /\ \E k \in 1..Len(inst.scopes[Current].subs) :
       /\ inst.scopes[Current].subs[k].active
       /\ inst' = [inst EXCEPT !.scopes[Current].subs[k].active = FALSE]
  /\ UNCHANGED <<backend, now, last, nops, retry, single, sleeper, tool, json, migration, tasks>>

\* Bus.publish(Event.Updated, properties) by any caller in the current
\* scope: one publish is followed, whatever the bus has come to.
BusPublish ==
  /\ Live
  /\ inst.publishes = <<>>
  /\ \E properties \in PublishInputs :
       inst' = Published(Current, properties, Publish(Current, properties))
  /\ UNCHANGED <<backend, now, last, nops, retry, single, sleeper, tool, json, migration, tasks>>

\* Config.get() in the current scope.
ConfigGet ==
  /\ HasScope
  /\ inst.upd.status # "running"
  /\ LET r == Get(Current)
     IN inst' = [inst EXCEPT
          !.scopes[Current].config = r.cache,
          !.got = [status |-> r.status, value |-> r.value, scope |-> Current,
                   after |-> inst.updates]]
  /\ UNCHANGED <<backend, now, last, nops, retry, single, sleeper, tool, json, migration, tasks>>

\* Config.update(config) is called in the current scope: one update is
\* followed, whatever the scopes have come to.
UpdateCall ==
  /\ Live
  /\ inst.upd.status = "idle"
  /\ \E config \in Partials :
       inst' = [inst EXCEPT !.upd = [NoUpdate EXCEPT !.status = "running", !.scope = Current,
                                       !.config = config,
                                       !.before = { k \in 1..Len(inst.scopes[Current].subs) :
                                                      inst.scopes[Current].subs[k].active }]]
  /\ UNCHANGED <<backend, now, last, nops, retry, single, sleeper, tool, json, migration, tasks>>

\* A statement of update has run: the next one is due, or update returns.
Advance(u, did) ==
  [u EXCEPT !.step = @ + 1,
            !.log = IF did = "load" THEN @ ELSE Append(@, did),
            !.status = IF u.step + 1 = Len(UpdateSteps) THEN "done" ELSE "running",
            !.scopes = Len(inst.scopes)]

Due(step) ==
  /\ inst.upd.status = "running"
  /\ UpdateSteps[inst.upd.step + 1] = step

Completed(step) == IF inst.upd.step + 1 = Len(UpdateSteps) THEN inst.updates + 1 ELSE inst.updates

\* const existing = await loadFile(filepath); const merged = mergeDeep(existing, config)
UpdateLoad ==
  /\ Due("load")
  /\ LET existing == inst.disk[inst.scopes[inst.upd.scope].directory]
     IN inst' = [inst EXCEPT
          !.upd = [Advance(inst.upd, "load") EXCEPT !.existing = existing,
                                                    !.merged = Merged(existing, inst.upd.config)],
          !.updates = Completed("load")]
  /\ UNCHANGED <<backend, now, last, nops, retry, single, sleeper, tool, json, migration, tasks>>

\* await Bun.write(filepath, JSON.stringify(merged, null, 2))
UpdateWrite ==
  /\ Due("write")
  /\ inst' = [inst EXCEPT
       !.disk[inst.scopes[inst.upd.scope].directory] = inst.upd.merged,
       !.upd = Advance(inst.upd, "write"),
       !.updates = Completed("write")]
  /\ UNCHANGED <<backend, now, last, nops, retry, single, sleeper, tool, json, migration, tasks>>

\* await Bus.publish(Event.Updated, { config: merged }); a publish that
\* throws ends update.
UpdatePublish ==
  /\ Due("publish")
  /\ LET properties == UpdatedProperties(inst.upd.merged, inst.upd.config)
         r == Publish(inst.upd.scope, properties)
         after == Published(inst.upd.scope, properties, r)
     IN inst' = IF r.status = "ok"
                  THEN [after EXCEPT
                          !.upd = [Advance(inst.upd, "publish")
                                     EXCEPT !.publish = Len(inst.publishes) + 1],
                          !.updates = Completed("publish")]
                  ELSE [after EXCEPT !.upd.status = "failed", !.updates = @ + 1]
  /\ UNCHANGED <<backend, now, last, nops, retry, single, sleeper, tool, json, migration, tasks>>

\* await Instance.dispose()
UpdateDispose ==
  /\ Due("dispose")
  /\ inst' = [inst EXCEPT
       !.scopes[inst.upd.scope] = DisposeScope(inst.upd.scope),
       !.upd = Advance(inst.upd, "dispose"),
       !.updates = Completed("dispose")]
  /\ UNCHANGED <<backend, now, last, nops, retry, single, sleeper, tool, json, migration, tasks>>

\* Subscribers come and go and events are published, in scopes that are
\* provided and disposed.
NextBus ==
  Provide \/ InstanceDispose \/ Subscribe \/ SubscribeThrowing \/ Unsubscribe \/ BusPublish

SpecBus == Init /\ [][NextBus]_vars

\* Config is read and updated, with subscribers, in scopes that are provided.
NextConfig ==
  \/ Provide \/ ProvideReturns \/ Subscribe \/ ConfigGet
  \/ UpdateCall \/ UpdateLoad \/ UpdateWrite \/ UpdatePublish \/ UpdateDispose

SpecConfig == InitConfig /\ [][NextConfig]_vars

----------------------------------------------------------------------------
(* Properties of Config and the Bus *)

\* The invocations a publish has made, in order.
DeliveriesOf(p) == SelectSeq(inst.deliveries, LAMBDA d : d.publish = p)

\* C22: Config.update has, in this order, written the merged config to disk,
\* published config.updated and disposed the instance; it does not fail;
\* when it has returned, every subscriber registered before the call has
\* been invoked exactly once for it, with the merged value (the file's
\* content deep-merged with the argument), which is what the file holds.
C22_UpdateWritesPublishesDisposes ==
  LET u == inst.upd
      order == <<"write", "publish", "dispose">>
  IN /\ u.status # "failed"
     /\ Len(u.log) <= 3 /\ u.log = SubSeq(order, 1, Len(u.log))
     /\ u.status = "done"
          => /\ u.log = order
             /\ inst.disk[inst.scopes[u.scope].directory] = mergeDeep(u.existing, u.config)
             /\ \A k \in u.before :
                  /\ Cardinality({ n \in 1..Len(inst.deliveries) :
                                     /\ inst.deliveries[n].scope = u.scope
                                     /\ inst.deliveries[n].sub = k }) = 1
                  /\ \E n \in 1..Len(inst.deliveries) :
                       /\ inst.deliveries[n].publish = u.publish
                       /\ inst.deliveries[n].scope = u.scope
                       /\ inst.deliveries[n].sub = k
                       /\ inst.deliveries[n].value = mergeDeep(u.existing, u.config)

\* update has returned; two subscribers were registered before it and the
\* file held a config before.
C22_Witness ==
  /\ inst.upd.status = "done"
  /\ inst.upd.before = {1, 2}
  /\ inst.upd.existing # EmptyInfo
  /\ Len(inst.deliveries) = 2

\* The last Config.get was made after the last Config.update had returned,
\* in a scope of the directory updated.
GetAfterUpdate ==
  /\ inst.upd.status = "done"
  /\ inst.got.status # "none"
  /\ inst.got.after = inst.updates
  /\ inst.scopes[inst.got.scope].directory = inst.scopes[inst.upd.scope].directory

\* C23 as claimed: a Config.get() after Config.update(partial) has completed
\* succeeds and returns the merged value.
C23_GetAfterUpdateReturnsMerged ==
  GetAfterUpdate
    => /\ inst.got.status = "ok"
       /\ inst.got.value = mergeDeep(inst.upd.existing, inst.upd.config)

\* C23 as amended: after Config.update(partial) has completed, Config.get()
\* in the disposed scope is rejected with ScopeDisposed, and Config.get() in
\* a scope provided afterwards for the directory succeeds and returns the
\* hierarchy global -> project -> local re-read from disk, whose project
\* layer is the merged value (the previous file deep-merged with partial).
C23_GetAfterRecreationReadsMerged ==
  GetAfterUpdate
    => /\ inst.got.scope = inst.upd.scope => inst.got.status = "ScopeDisposed"
       /\ inst.got.scope > inst.upd.scopes
            => /\ inst.got.status = "ok"
               /\ inst.got.value =
                    mergeDeep(mergeDeep(inst.global,
                                        mergeDeep(inst.upd.existing, inst.upd.config)),
                              inst.local)

\* update changed a field of keybinds in a file that named another, and get
\* was called in a scope provided afterwards, with a local layer present.
C23_Witness ==
  /\ GetAfterUpdate
  /\ inst.got.scope > inst.upd.scopes
  /\ inst.got.value.keybinds = [leader |-> "a", quit |-> "q"]
  /\ inst.local # EmptyInfo

C27_WitnessUnsubscribed ==
  \E p \in 1..Len(inst.publishes) :
    /\ Len(inst.publishes[p].subs) = 2
    /\ ~inst.publishes[p].subs[1].active
    /\ Len(DeliveriesOf(p)) = 1

----------------------------------------------------------------------------
(* Properties of the Instance scope *)

CallsIn(i) == { c \in 1..Len(inst.calls) : inst.calls[c].scope = i }
RunsIn(i) == { n \in 1..Len(inst.invocations) : inst.invocations[n].scope = i }

\* C24: a state lookup made in a scope after its dispose() is rejected with
\* ScopeDisposed: it returns no value, cached or new, and starts no factory.
C24_DisposedScopeRejectsLookups ==
  \A c \in 1..Len(inst.calls) :
    inst.calls[c].disposed
      => /\ inst.calls[c].status = "ScopeDisposed"
         /\ inst.calls[c].value = NoState
         /\ ~inst.calls[c].ran

\* A lookup has returned the backend in a scope, the scope was disposed and
\* a later lookup was made in it.
C24_Witness ==
  \E c, d \in 1..Len(inst.calls) :
    /\ c < d
    /\ inst.calls[c].scope = inst.calls[d].scope
    /\ inst.calls[c].status = "ok"
    /\ inst.calls[d].disposed

\* C25 as claimed: in a scope the factory of Storage runs at most once,
\* however often the accessor is called, and every call that has returned
\* has returned the same value.
C25_FactoryRunsOnce ==
  \A i \in 1..Len(inst.scopes) :
    /\ Cardinality(RunsIn(i)) <= 1
    /\ \A c, d \in CallsIn(i) :
         inst.calls[c].status = "ok" /\ inst.calls[d].status = "ok"
           => inst.calls[c].value = inst.calls[d].value

\* C25 as amended: in a scope at most one run of the factory of Storage has
\* not failed (a run starts only when no run is pending and none has
\* succeeded), so one backend is constructed per scope, and every call that
\* has returned has returned the same value.
C25_FactoryRunsOnceUnlessItFails ==
  \A i \in 1..Len(inst.scopes) :
    /\ Cardinality({ n \in RunsIn(i) : inst.invocations[n].status # "failed" }) <= 1
    /\ \A c, d \in CallsIn(i) :
         inst.calls[c].status = "ok" /\ inst.calls[d].status = "ok"
           => inst.calls[c].value = inst.calls[d].value

\* In one scope a run of the factory has failed, and two calls have
\* returned, one that started the factory and one that did not.
C25_Witness ==
  \E i \in 1..Len(inst.scopes) :
    /\ \E n \in RunsIn(i) : inst.invocations[n].status = "failed"
    /\ \E c, d \in CallsIn(i) :
         /\ inst.calls[c].status = "ok" /\ inst.calls[c].ran
         /\ inst.calls[d].status = "ok" /\ ~inst.calls[d].ran

\* C26: the states of two scopes are never the same objects (the backend,
\* with its handle cache and its message map, obtained in one scope is not
\* the one obtained in another, nested or later, for the same directory or
\* not), the backend of a scope is constructed on the scope's directory, and
\* the directory of a scope never changes.
C26_ScopesIsolated ==
  /\ [](\A c, d \in 1..Len(inst.calls) :
          /\ inst.calls[c].status = "ok"
               => inst.calls[c].value.dir = inst.scopes[inst.calls[c].scope].directory
          /\ inst.calls[c].status = "ok" /\ inst.calls[d].status = "ok"
             /\ inst.calls[c].scope # inst.calls[d].scope
               => inst.calls[c].value.backend # inst.calls[d].value.backend)
  /\ [][ \A i \in 1..Len(inst.scopes) :
           inst.scopes'[i].directory = inst.scopes[i].directory ]_vars

\* Storage has returned a backend in a scope and in a scope nested in it.
C26_Witness ==
  /\ Len(inst.stack) = 2
  /\ \E c, d \in 1..Len(inst.calls) :
       /\ inst.calls[c].scope = inst.stack[1] /\ inst.calls[c].status = "ok"
       /\ inst.calls[d].scope = inst.stack[2] /\ inst.calls[d].status = "ok"
       /\ inst.scopes[inst.stack[1]].directory = inst.scopes[inst.stack[2]].directory

----------------------------------------------------------------------------
(* Tools and the external_directory permission *)

\* The five tools that carry the check; read changes no file.
Tools == { "bash", "edit", "patch", "read", "write" }

\* Instance.directory of the tool call, and the paths a call is given.
WorkingDirectory == <<"work">>
Paths == { <<"work", "a.txt">>, <<"work", "src", "b.ts">>,
           <<"etc", "passwd">>, <<"tmp", "external.txt">> }

\* The path is not inside the working directory.
Outside(path) ==
  ~(Len(path) > Len(WorkingDirectory)
    /\ SubSeq(path, 1, Len(WorkingDirectory)) = WorkingDirectory)

\* What agent.permission.external_directory can hold: the three values of
\* the config schema, and what reaches the tool if validation is bypassed.
Permissions == { "allow", "ask", "deny", "undefined", "null", "other" }

\* The check that rejects on deny only and lets an unset permission through
externalDirectoryCheckPermissive(permission) ==
  IF permission = "ask" THEN "ask"
  ELSE IF permission = "deny" THEN "reject"
  ELSE "proceed"

\* The check of a path outside the working directory: allow proceeds, ask
\* awaits Permission.ask, anything else throws Permission.RejectedError.
externalDirectoryCheck(permission) ==
  IF permission = "allow" THEN "proceed"
  ELSE IF permission = "ask" THEN "ask"
  ELSE "reject"

\* The tool carries out the operation: every tool but read changes the file.
Performed(t) ==
  [t EXCEPT !.pc = "done", !.outcome = "ok",
            !.changed = IF t.name = "read" THEN {} ELSE {t.path}]

\* A tool is executed on a path, by an agent whose edit permission is allow.
ToolExecute ==
  /\ tool.pc = "idle"
  /\ \E name \in Tools, path \in Paths, permission \in Permissions :
       LET t == [tool EXCEPT !.name = name, !.path = path, !.permission = permission]
           check == externalDirectoryCheck(permission)
       IN tool' = IF ~Outside(path) \/ check = "proceed" THEN Performed(t)
                  ELSE IF check = "ask" THEN [t EXCEPT !.pc = "asking", !.asked = @ + 1]
                  ELSE [t EXCEPT !.pc = "done", !.outcome = "RejectedError"]
  /\ UNCHANGED <<backend, now, last, nops, retry, single, sleeper, inst, json, migration, tasks>>

\* Permission.ask resolves: the user approves.
AskResolves ==
  /\ tool.pc = "asking"
  /\ tool' = Performed([tool EXCEPT !.answer = "resolved"])
  /\ UNCHANGED <<backend, now, last, nops, retry, single, sleeper, inst, json, migration, tasks>>

\* Permission.ask rejects: the error propagates out of execute.
AskRejects ==
  /\ tool.pc = "asking"
  /\ tool' = [tool EXCEPT !.pc = "done", !.answer = "rejected", !.outcome = "AskRejected"]
  /\ UNCHANGED <<backend, now, last, nops, retry, single, sleeper, inst, json, migration, tasks>>

NextTool == ToolExecute \/ AskResolves \/ AskRejects

SpecTool == Init /\ [][NextTool]_vars

----------------------------------------------------------------------------
\* C30: a session database exists only once a write has been routed to its
\* session: a read, a list or a remove never creates the file sessions/{id}.db.
C30_OnlyWritesCreateSessionDB ==
  [][ last'.op \in {"read", "list", "remove"}
        => \A d \in DbNames : dbFiles[d] = NoFile => dbFiles'[d] = NoFile ]_vars

----------------------------------------------------------------------------
\* C31: the messageID -> sessionID map is append-only: no operation of the
\* backend (read, write, remove, list) removes an entry or changes the
\* session a mapped message id points to.
C31_MapAppendOnly ==
  [][ last'.op \in {"read", "write", "remove", "list"}
        => \A m \in Messages :
             messageSessionCache[m] # Undefined
               => messageSessionCache'[m] = messageSessionCache[m] ]_vars

----------------------------------------------------------------------------
(* JsonBackend: operations on one key, interleaved at their awaits *)

\* The tasks running one JsonBackend operation each.
JsonTasks == {1, 2}

\* A task of JsonBackend. pc: idle, acquire (awaiting the lock), io (before
\* its file access), writeback (update, between its read and its write),
\* done. held: the lock it holds; access: the lock it held at each of its
\* file accesses; seen: what update read; draft: what update writes back.
JsonTask(op, pc) ==
  [op |-> op, pc |-> pc, held |-> "none", access |-> <<>>, seen |-> {}, draft |-> {},
   status |-> "none", value |-> {}]

\* fn(draft) of the update a task runs: each task's function leaves its own mark.
JsonMutate(t, content) == content \cup { <<"f", t>> }

\* JSON.stringify(content, null, 2) of write: the mark of the task's content.
JsonContent(t) == { <<"w", t>> }

\* Lock.read(target) / Lock.write(target) can be granted: read locks share,
\* a write lock is exclusive.
LockFree(kind) ==
  IF kind = "read" THEN json.writer = 0
  ELSE json.writer = 0 /\ json.readers = {}

\* using _ = ...: the lock is released when the scope is left.
Released(t) ==
  [json EXCEPT !.readers = @ \ {t}, !.writer = IF @ = t THEN 0 ELSE @]

\* The task has made a file access and ended.
JsonDone(t, status, value) ==
  [tasks[t] EXCEPT !.pc = "done", !.status = status, !.value = value, !.held = "none",
                   !.access = Append(@, tasks[t].held)]

\* Where a call first suspends: read, write and update await their lock;
\* remove and list go straight to the file system.
JsonFirstStep(op) == IF op \in {"remove", "list"} THEN "io" ELSE "acquire"

JsonCall(t) ==
  /\ tasks[t].pc = "idle"
  /\ \E op \in {"read", "write", "update", "remove", "list"} :
       tasks' = [tasks EXCEPT ![t] = JsonTask(op, JsonFirstStep(op))]
  /\ UNCHANGED <<backend, now, last, nops, retry, single, sleeper, inst, tool, json, migration>>

\* await Lock.read(target) / await Lock.write(target) resolves.
JsonLock(t) ==
  /\ tasks[t].pc = "acquire"
  /\ LET kind == IF tasks[t].op = "read" THEN "read" ELSE "write" IN
     /\ LockFree(kind)
     /\ json' = IF kind = "read" THEN [json EXCEPT !.readers = @ \cup {t}]
                ELSE [json EXCEPT !.writer = t]
     /\ tasks' = [tasks EXCEPT ![t].pc = "io", ![t].held = kind]
  /\ UNCHANGED <<backend, now, last, nops, retry, single, sleeper, inst, tool, migration>>

\* read: await Bun.file(target).json(); ENOENT becomes NotFoundError.
JsonReadFile(t) ==
  /\ tasks[t].pc = "io" /\ tasks[t].op = "read"
  /\ tasks' = [tasks EXCEPT ![t] =
                 IF json.file.exists THEN JsonDone(t, "ok", json.file.data)
                 ELSE JsonDone(t, "NotFoundError", {})]
  /\ json' = Released(t)
  /\ UNCHANGED <<backend, now, last, nops, retry, single, sleeper, inst, tool, migration>>

\* write: await Bun.write(target, JSON.stringify(content, null, 2))
JsonWriteFile(t) ==
  /\ tasks[t].pc = "io" /\ tasks[t].op = "write"
  /\ tasks' = [tasks EXCEPT ![t] = JsonDone(t, "ok", {})]
  /\ json' = [Released(t) EXCEPT !.file = JsonFile(TRUE, JsonContent(t))]
  /\ UNCHANGED <<backend, now, last, nops, retry, single, sleeper, inst, tool, migration>>

\* update: const content = await Bun.file(target).json(); fn(content)
JsonUpdateRead(t) ==
  /\ tasks[t].pc = "io" /\ tasks[t].op = "update"
  /\ IF json.file.exists
       THEN /\ tasks' = [tasks EXCEPT ![t].pc = "writeback",
                                      ![t].seen = json.file.data,
                                      ![t].draft = JsonMutate(t, json.file.data),
                                      ![t].access = Append(@, tasks[t].held)]
            /\ UNCHANGED json
       ELSE /\ tasks' = [tasks EXCEPT ![t] = JsonDone(t, "NotFoundError", {})]
            /\ json' = Released(t)
  /\ UNCHANGED <<backend, now, last, nops, retry, single, sleeper, inst, tool, migration>>

\* update: await Bun.write(target, JSON.stringify(content, null, 2)); return content
JsonUpdateWrite(t) ==
  /\ tasks[t].pc = "writeback"
  /\ tasks' = [tasks EXCEPT ![t] = JsonDone(t, "ok", tasks[t].draft)]
  /\ json' = [Released(t) EXCEPT !.file = JsonFile(TRUE, tasks[t].draft)]
  /\ UNCHANGED <<backend, now, last, nops, retry, single, sleeper, inst, tool, migration>>

\* remove: await fs.unlink(target).catch(() => {})
JsonUnlink(t) ==
  /\ tasks[t].pc = "io" /\ tasks[t].op = "remove"
  /\ tasks' = [tasks EXCEPT ![t] = JsonDone(t, "ok", {})]
  /\ json' = [Released(t) EXCEPT !.file = NoJsonFile]
  /\ UNCHANGED <<backend, now, last, nops, retry, single, sleeper, inst, tool, migration>>

\* list: the glob scan of the directory of the prefix; the file of the key
\* is found or not.
JsonScan(t) ==
  /\ tasks[t].pc = "io" /\ tasks[t].op = "list"
  /\ tasks' = [tasks EXCEPT ![t] =
                 JsonDone(t, "ok", IF json.file.exists THEN {"key"} ELSE {})]
  /\ json' = Released(t)
  /\ UNCHANGED <<backend, now, last, nops, retry, single, sleeper, inst, tool, migration>>

\* The file of the key exists or not when the tasks start.
InitJson ==
  /\ json \in { NoJson, [NoJson EXCEPT !.file = JsonFile(TRUE, {})] }
  /\ tasks = [t \in JsonTasks |-> JsonTask("none", "idle")]
  /\ migration = NoMigration
  /\ sessionsMetaDB = [s \in Sessions |-> NoRow]
  /\ dbFiles = [d \in DbNames |-> NoFile]
  /\ sessionDBs = NewSessionDBs
  /\ messageSessionCache = NewMessageSessionCache
  /\ now = 0
  /\ last = Result("init", <<>>, None, "ok", None, <<>>)
  /\ nops = 0
  /\ retry = NoCall
  /\ single = NewSingle
  /\ sleeper = NoSleep
  /\ inst = NoInst
  /\ tool = NoTool

NextJson ==
  \E t \in JsonTasks :
    \/ JsonCall(t)
    \/ JsonLock(t)
    \/ JsonReadFile(t)
    \/ JsonWriteFile(t)
    \/ JsonUpdateRead(t)
    \/ JsonUpdateWrite(t)
    \/ JsonUnlink(t)
    \/ JsonScan(t)

SpecJson == InitJson /\ [][NextJson]_vars

\* The lock an operation is to hold.
JsonLockOf(op) == IF op \in {"read", "list"} THEN "read" ELSE "write"

\* Every file access of every operation is made under the lock of its kind.
JsonAccessLocked ==
  \A t \in JsonTasks :
    \A i \in 1..Len(tasks[t].access) : tasks[t].access[i] = JsonLockOf(tasks[t].op)

\* Between the read and the write-back of an update the file is what it read.
JsonUpdateUndisturbed ==
  \A t \in JsonTasks :
    tasks[t].pc = "writeback" => json.file = JsonFile(TRUE, tasks[t].seen)

\* Two updates that have both returned have both left their mark.
JsonUpdatesSerialized ==
  (\A t \in JsonTasks : tasks[t].op = "update" /\ tasks[t].pc = "done" /\ tasks[t].status = "ok")
    => \A t \in JsonTasks : <<"f", t>> \in json.file.data

\* C32: every JsonBackend operation holds the advisory lock of its path for
\* its whole duration (read for read and list, write for write, update and
\* remove), so nothing changes the file between the read and the write-back
\* of an update, and two concurrent updates both take effect.
C32_JsonOperationsHoldLock ==
  /\ JsonAccessLocked
  /\ JsonUpdateUndisturbed
  /\ JsonUpdatesSerialized

----------------------------------------------------------------------------
\* C33: each migration is applied exactly once per project, in version order,
\* across process starts: the migrations run on a store are MIGRATIONS up to
\* its sentinel, and a storage operation is served in a project only once its
\* store has every migration applied.
C33_MigrationsOncePerProject ==
  /\ \A d \in Directories :
       /\ migration[d].applied = SubSeq(MIGRATIONS, 1, Len(migration[d].applied))
       /\ migration[d].sentinel = Len(migration[d].applied)
  /\ \A c \in 1..Len(inst.calls) :
       inst.calls[c].status = "ok"
         => migration[inst.scopes[inst.calls[c].scope].directory].applied = MIGRATIONS

----------------------------------------------------------------------------
\* prefix is a proper beginning of key, segment for segment
IsPrefixOf(prefix, key) ==
  /\ Len(prefix) < Len(key)
  /\ SubSeq(key, 1, Len(prefix)) = prefix

\* The key lists list(prefix) can return.
Listed(prefix) == { out.keys : out \in list(prefix) }

\* C34: a write to one key never changes what another key reads: after a
\* successful write(k', v') every other key that read a value still reads
\* that value, and list returns what it returned for every prefix that does
\* not contain k'.
C34_WriteChangesNoOtherKey ==
  [][ (last'.op = "write" /\ last'.status = "ok")
        => /\ \A k \in Keys \ {last'.key} :
                read(k).status = "ok"
                  => /\ (read(k).status)' = "ok"
                     /\ (read(k).value)' = read(k).value
           /\ \A prefix \in Prefixes :
                ~IsPrefixOf(prefix, last'.key) => (Listed(prefix))' = Listed(prefix) ]_vars

----------------------------------------------------------------------------
\* k is key or a descendant of key: its string begins with key + "/",
\* character for character. The messages of a removed session and their
\* parts count as descendants of the session.
Below(key, k) ==
  \/ k = key
  \/ StartsWith(Join(k), Join(key) \o <<"/">>)
  \/ /\ key[1] = SESSION /\ Len(key) = 3
     /\ \/ k[1] = MESSAGE /\ k[2] = key[3]
        \/ k[1] = PART /\ messageSessionCache[k[2]] = key[3]

\* The key is stored on the MultiSqliteBackend: its session row under its
\* project, or its row in the table storage of some session database.
MultiStored(k) ==
  IF k[1] = SESSION
    THEN sessionsMetaDB[k[3]] # NoRow /\ sessionsMetaDB[k[3]].project_id = k[2]
    ELSE \E d \in DbNames : dbFiles[d] # NoFile /\ \E r \in dbFiles[d] : r.key = Join(k)

\* remove on the MultiSqliteBackend leaves every other stored key as it was.
MultiRemoveFrame ==
  [][ last'.op = "remove"
        => \A k \in BackendKeys :
             (~Below(last'.key, k) /\ MultiStored(k) /\ read(k).status = "ok")
               => /\ (read(k).status)' = "ok"
                  /\ (read(k).value)' = read(k).value ]_vars

\* remove on the SqliteBackend leaves every other stored key as it was.
SingleRemoveFrame ==
  [][ single'.last.op = "remove"
        => \A k \in BackendKeys :
             (~Below(single'.last.key, k) /\ SqliteBackend_read(single.rows, k).status = "ok")
               => /\ SqliteBackend_read(single'.rows, k).status = "ok"
                  /\ SqliteBackend_read(single'.rows, k).value =
                       SqliteBackend_read(single.rows, k).value ]_vars

\* C35: remove(k) deletes nothing but k and its descendants, on either
\* backend: every stored key that is neither k nor begins with k + "/" reads
\* the same value afterwards.
C35_RemoveDeletesOnlyDescendants == MultiRemoveFrame /\ SingleRemoveFrame

----------------------------------------------------------------------------
(* MultiSqliteBackend: two operations started together in one scope *)

\* The record the store holds before the tasks start: {"n": 1}
ParValue == JObj(<<"1">>)

\* A task running one operation. pc: start (the facade awaits getState()()),
\* read (update, suspended at await this.read), unlink (remove, suspended at
\* await fs.unlink), done. content: the draft update holds.
ParTask(op, key, arg) ==
  [op |-> op, key |-> key, arg |-> arg, pc |-> "start", content |-> None,
   status |-> "none", value |-> None]

\* The two tasks.
ParIds == {1, 2}

\* The functions the two updates are given.
ParMutators == { "push2", "push3" }

\* The pairs of calls started together: two updates of one key, or the
\* remove of a session and the write of a message.
ParScenarios ==
  { <<ParTask("update", k, f1), ParTask("update", k, f2)>>
      : k \in SessionKeys \cup MessageKeys, f1 \in ParMutators, f2 \in ParMutators } \cup
  { <<ParTask("remove", ks, None), ParTask("write", km, ParValue)>>
      : ks \in SessionKeys, km \in MessageKeys }

\* The state an operation leaves.
ParApply(out) ==
  /\ sessionsMetaDB' = out.meta
  /\ dbFiles' = out.files
  /\ sessionDBs' = out.handles
  /\ messageSessionCache' = out.cache

ParEnd(t, status, value) ==
  [tasks EXCEPT ![t].pc = "done", ![t].status = status, ![t].value = value]

\* Promise.all of the two calls: both run up to their first await.
ParStart ==
  /\ tasks = NoTasks
  /\ tasks' \in ParScenarios
  /\ UNCHANGED <<backend, now, last, nops, retry, single, sleeper, inst, tool, json, migration>>

\* update: const content = await this.read<T>(key). read has no await of its
\* own: it runs to its end when it is called, and update is suspended until
\* the promise it returned is delivered.
ParUpdateRead(t) ==
  /\ t \in DOMAIN tasks
  /\ tasks[t].pc = "start" /\ tasks[t].op = "update"
  /\ LET r == read(tasks[t].key) IN
     /\ ParApply(r)
     /\ tasks' = IF r.status = "ok"
                   THEN [tasks EXCEPT ![t].pc = "read", ![t].content = r.value]
                   ELSE ParEnd(t, r.status, None)
  /\ UNCHANGED <<now, last, nops, retry, single, sleeper, inst, tool, json, migration>>

\* update: fn(content); await this.write(key, content); return content
ParUpdateWrite(t) ==
  /\ t \in DOMAIN tasks
  /\ tasks[t].pc = "read"
  /\ LET content == Mutate(tasks[t].arg, tasks[t].content)
         out == write(tasks[t].key, content)
     IN /\ ParApply(out)
        /\ tasks' = ParEnd(t, out.status, content)
  /\ UNCHANGED <<now, last, nops, retry, single, sleeper, inst, tool, json, migration>>

\* write: no await in its body, it runs to its end when it is called.
ParWrite(t) ==
  /\ t \in DOMAIN tasks
  /\ tasks[t].pc = "start" /\ tasks[t].op = "write"
  /\ LET out == write(tasks[t].key, tasks[t].arg) IN
     /\ ParApply(out)
     /\ tasks' = ParEnd(t, out.status, None)
  /\ UNCHANGED <<now, last, nops, retry, single, sleeper, inst, tool, json, migration>>

\* remove of a session key, up to its first await: DELETE FROM sessions, the
\* cached handle closed and dropped, fs.unlink started.
ParRemoveRow(t) ==
  /\ t \in DOMAIN tasks
  /\ tasks[t].pc = "start" /\ tasks[t].op = "remove"
  /\ LET sessionID == parseKey(tasks[t].key).sessionID IN
     /\ sessionsMetaDB' = DeleteSession(sessionsMetaDB, sessionID)
     /\ sessionDBs' = sessionDBs \ {sessionID}
  /\ tasks' = [tasks EXCEPT ![t].pc = "unlink"]
  /\ UNCHANGED <<dbFiles, messageSessionCache, now, last, nops, retry, single, sleeper, inst,
                 tool, json, migration>>

\* remove: the unlinks of sessions/{id}.db and its sidecars take effect and
\* remove returns.
ParRemoveUnlink(t) ==
  /\ t \in DOMAIN tasks
  /\ tasks[t].pc = "unlink"
  /\ dbFiles' = Unlink(dbFiles, parseKey(tasks[t].key).sessionID)
  /\ tasks' = ParEnd(t, "ok", None)
  /\ UNCHANGED <<sessionsMetaDB, sessionDBs, messageSessionCache, now, last, nops, retry,
                 single, sleeper, inst, tool, json, migration>>

\* The store when the tasks start: this process has written {"n": 1} to
\* session/p1/sA and to message/sA/m1.
InitParallel ==
  /\ now = 0
  /\ sessionsMetaDB =
       UpsertSession([s \in Sessions |-> NoRow], <<"s","A">>, <<"p","1">>,
                     JSONstringify(ParValue))
  /\ dbFiles = [[d \in DbNames |-> NoFile] EXCEPT ![<<"s","A">>] =
                  UpsertStorage({}, Join(<<MESSAGE, <<"s","A">>, <<"m","1">>>>), MESSAGE,
                                JSONstringify(ParValue))]
  /\ sessionDBs = { <<"s","A">> }
  /\ messageSessionCache = [NewMessageSessionCache EXCEPT ![<<"m","1">>] = <<"s","A">>]
  /\ last = Result("init", <<>>, None, "ok", None, <<>>)
  /\ nops = 0
  /\ retry = NoCall
  /\ single = NewSingle
  /\ sleeper = NoSleep
  /\ inst = NoInst
  /\ tool = NoTool
  /\ json = NoJson
  /\ migration = NoMigration
  /\ tasks = NoTasks

NextParallel ==
  \/ ParStart
  \/ \E t \in ParIds :
       \/ ParUpdateRead(t)
       \/ ParUpdateWrite(t)
       \/ ParWrite(t)
       \/ ParRemoveRow(t)
       \/ ParRemoveUnlink(t)

SpecParallel == InitParallel /\ [][NextParallel]_vars

\* Both tasks have returned.
ParDone == tasks # NoTasks /\ \A t \in DOMAIN tasks : tasks[t].pc = "done"

\* C36: two updates of one key started together both take effect: once both
\* have returned, read(k) is f2(f1(v)) or f1(f2(v)) for the value v stored
\* before.
C36_ConcurrentUpdatesBothApply ==
  (/\ ParDone
   /\ \A t \in DOMAIN tasks : tasks[t].op = "update" /\ tasks[t].status = "ok")
    => /\ read(tasks[1].key).status = "ok"
       /\ read(tasks[1].key).value \in
            { Mutate(tasks[2].arg, Mutate(tasks[1].arg, ParValue)),
              Mutate(tasks[1].arg, Mutate(tasks[2].arg, ParValue)) }


\* C37: the remove of session/p/s interleaved with the write of message/s/m
\* leaves no cached handle on an unlinked file: once both have returned,
\* either the database file of s exists and holds the message with the value
\* written, or the message is absent and the handle cache has no entry for s.
C37_NoHandleOnUnlinkedFile ==
  (/\ ParDone
   /\ tasks[1].op = "remove" /\ tasks[2].op = "write"
   /\ tasks[1].key[3] = tasks[2].key[2])
    => LET s == tasks[2].key[2]
           stored == dbFiles[s] # NoFile
                       /\ \E r \in dbFiles[s] : r.key = Join(tasks[2].key)
                                                /\ JSONparse(r.data) = tasks[2].arg
           absent == dbFiles[s] = NoFile
                       \/ ~\E r \in dbFiles[s] : r.key = Join(tasks[2].key)
       IN \/ stored
          \/ absent /\ s \notin sessionDBs

----------------------------------------------------------------------------
\* Every part row lies in a session database that also holds its message.
PartsHaveMessage ==
  \A d \in Sessions :
    dbFiles[d] # NoFile
      => \A r \in dbFiles[d] :
           r.type = PART
             => \E m \in Messages :
                  /\ Split(r.key)[2] = m
                  /\ \E x \in dbFiles[d] : x.key = Join(<<MESSAGE, d, m>>)

\* The messages a remove takes away: the message of the key, or the
\* messages mapped to the session of the key.
RemovedMessages(key) ==
  IF key[1] = MESSAGE /\ Len(key) = 3 THEN { key[3] }
  ELSE IF key[1] = SESSION /\ Len(key) = 3
    THEN { m \in Messages : messageSessionCache[m] = key[3] }
  ELSE {}

\* C38: parts never outlive or precede their message: every stored part row
\* lies in the database of a session that also stores its message, and once
\* a message or its session has been removed no part of it is readable and a
\* write of one of its parts fails.
C38_PartsNeverOutliveMessage ==
  /\ []PartsHaveMessage
  /\ [][ (last'.op = "remove" /\ last'.status = "ok")
           => \A m \in RemovedMessages(last'.key), q \in Parts :
                /\ (read(<<PART, m, q>>).status)' # "ok"
                /\ (write(<<PART, m, q>>, JNull).status)' # "ok" ]_vars

----------------------------------------------------------------------------
(* Config.update: two calls started together in one scope *)

\* The partials of the two calls: one sets theme, the other keybinds.leader.
CfgPartials == << Info("dark", "absent", "absent", "absent"),
                  Info("absent", "absent", "a", "absent") >>

\* Promise.all of two calls of Config.update in the current scope: each is
\* followed through its statements as the one call of UpdateCall is.
CfgStart ==
  /\ Live
  /\ tasks = NoTasks
  /\ tasks' = [t \in {1, 2} |->
                 [NoUpdate EXCEPT !.status = "running", !.scope = Current,
                                  !.config = CfgPartials[t]]]
  /\ UNCHANGED <<backend, now, last, nops, retry, single, sleeper, inst, tool, json, migration>>

\* The statement of update that call t is to run next.
CfgDue(t, step) ==
  /\ t \in DOMAIN tasks
  /\ tasks[t].status = "running"
  /\ UpdateSteps[tasks[t].step + 1] = step

\* const existing = await loadFile(filepath); const merged = mergeDeep(existing, config)
CfgLoad(t) ==
  /\ CfgDue(t, "load")
  /\ LET existing == inst.disk[inst.scopes[tasks[t].scope].directory]
     IN tasks' = [tasks EXCEPT ![t] =
                    [Advance(tasks[t], "load") EXCEPT !.existing = existing,
                                                      !.merged = Merged(existing, tasks[t].config)]]
  /\ UNCHANGED <<backend, now, last, nops, retry, single, sleeper, inst, tool, json, migration>>

\* await Bun.write(filepath, JSON.stringify(merged, null, 2))
CfgWrite(t) ==
  /\ CfgDue(t, "write")
  /\ inst' = [inst EXCEPT !.disk[inst.scopes[tasks[t].scope].directory] = tasks[t].merged]
  /\ tasks' = [tasks EXCEPT ![t] = Advance(tasks[t], "write")]
  /\ UNCHANGED <<backend, now, last, nops, retry, single, sleeper, tool, json, migration>>

\* await Bus.publish(Event.Updated, { config: merged }); a publish that
\* throws ends update.
CfgPublish(t) ==
  /\ CfgDue(t, "publish")
  /\ LET properties == UpdatedProperties(tasks[t].merged, tasks[t].config)
         r == Publish(tasks[t].scope, properties)
     IN /\ inst' = Published(tasks[t].scope, properties, r)
        /\ tasks' = [tasks EXCEPT ![t] =
                       IF r.status = "ok"
                         THEN [Advance(tasks[t], "publish") EXCEPT !.publish = Len(inst.publishes) + 1]
                         ELSE [tasks[t] EXCEPT !.status = "failed"]]
  /\ UNCHANGED <<backend, now, last, nops, retry, single, sleeper, tool, json, migration>>

\* await Instance.dispose()
CfgDispose(t) ==
  /\ CfgDue(t, "dispose")
  /\ inst' = [inst EXCEPT !.scopes[tasks[t].scope] = DisposeScope(tasks[t].scope)]
  /\ tasks' = [tasks EXCEPT ![t] = Advance(tasks[t], "dispose")]
  /\ UNCHANGED <<backend, now, last, nops, retry, single, sleeper, tool, json, migration>>

NextConfigParallel ==
  \/ Provide
  \/ Subscribe
  \/ CfgStart
  \/ \E t \in {1, 2} :
       \/ CfgLoad(t)
       \/ CfgWrite(t)
       \/ CfgPublish(t)
       \/ CfgDispose(t)

SpecConfigParallel == InitConfig /\ [][NextConfigParallel]_vars

\* The publishes of config.updated that went through, in order.
OkPublishes == SelectSeq(inst.publishes, LAMBDA p : p.status = "ok")

\* C39: two calls of Config.update started together, with partials that set
\* different fields, both persist: once both have ended the file holds both
\* fields and the last config.updated event carries what the file holds.
C39_ConcurrentConfigUpdatesPersist ==
  (tasks # NoTasks /\ \A t \in DOMAIN tasks : tasks[t].status \in {"done", "failed"})
    => LET file == inst.disk[inst.scopes[tasks[1].scope].directory] IN
       /\ file.theme = "dark"
       /\ file.keybinds.leader = "a"
       /\ OkPublishes # <<>>
       /\ OkPublishes[Len(OkPublishes)].properties.config = file

----------------------------------------------------------------------------
(* sleep(ms, signal) on a signal that is already aborted *)

\* The signal was aborted before sleep was called: the listener that the call
\* added is still registered on an aborted signal (an abort that comes after
\* the call removes it).
AbortedBeforeCall == sleeper.pc # "idle" /\ sleeper.aborted /\ sleeper.listener

\* C40: when the cancel signal has already fired at the call of
\* sleep(ms, cancel), the promise is rejected without waiting: it never
\* resolves, and once any time has passed it has been rejected.
C40_SleepOnAbortedSignalRejects ==
  AbortedBeforeCall
    => /\ sleeper.pc # "resolved"
       /\ sleeper.elapsed > 0 => sleeper.pc = "rejected"

====
